---- MODULE Spec2Model ----
(***************************************************************************)
(* A model of mine_viewer: the appearance cache (src/src/loader.rs), the   *)
(* rasterizer tasks that share it behind a readers-writer lock             *)
(* (src/src/renderer.rs), and the region / chunk / section decoders        *)
(* (src/src/map.rs, src/src/nbt.rs).                                       *)
(***************************************************************************)
EXTENDS Integers, Sequences, FiniteSets, TLC

VARIABLES
    \* ---- TextureLoader (loader.rs:95-102)
    textures,      \* Vec<(image, is_transparent, average colour)>; handle h is textures[h + 1]
    textures_map,  \* HashMap<(name, properties), Option<usize>>; Option is {} or {h}
    \* ---- RwLock<TextureLoader> (renderer.rs:31)
    readers,       \* tasks holding the shared lock
    writer,        \* tasks holding the exclusive lock (at most one)
    poisoned,      \* the lock's poison flag: a writer panicked while holding it
    \* ---- one rasterizer task per region (renderer.rs:28-58)
    region,        \* task -> its Region, as columns of blocks from the top down
    pc,            \* task -> position in image_chunk
    col,           \* task -> column being rasterized
    y,             \* task -> depth in the column (1 is the top)
    index,         \* task -> the local `index` (Option<usize>)
    raster,        \* task -> pixels produced so far
    cause,         \* task -> why it panicked, if it did
    \* ---- history of the cache
    appended,      \* key -> number of texture records pushed for it
    loads,         \* key -> number of load calls made for it
    resolved,      \* key -> number of times load went on to resolve it
    \* ---- load_graphic_props and the palette part of ChunkSection::new
    pl_variants,   \* the variant keys of the block's blockstate file
    pl_block,      \* a palette entry (an NBT compound tag)
    pl_graphics,   \* Option: the block's entry of the graphic-property index
    pl_order,      \* the order in which the entry's Properties were iterated
    pl_out,        \* Option: what the palette loop pushed for the entry
    \* ---- the index part of ChunkSection::new
    up_n,          \* the palette size the indices are drawn below
    up_indices,    \* the 4096 indices that were packed
    up_longs,      \* BlockStates: the packed long array
    up_out,        \* Option: what the unpacking made of it
    \* ---- Chunk::new
    ch_nbt,        \* the Level compound
    ch_out,        \* Option: the Chunk built, or the panic
    ch_block,      \* Option: what the last lookup in the Chunk gave
    \* ---- Region::from_file
    rg_file,       \* the region file: header slots and what their sectors hold
    rg_out,        \* Option: what from_file returned
    rg_block,      \* Option: what the last lookup in the Region gave
    \* ---- NBTParser::read_compound
    nb_bytes,      \* the byte buffer handed to the parser
    nb_out,        \* Option: what read_compound returned
    \* ---- the image helpers of the loader
    im_png,        \* a cropped texture: its RGBA pixels
    im_taint,      \* a tint offset [i16; 3]
    im_out         \* Option: the tinted image and its average colour

cacheVars == <<textures, textures_map, readers, writer, poisoned, appended, loads, resolved>>
taskVars  == <<region, pc, col, y, index, raster, cause>>
paletteVars == <<pl_variants, pl_block, pl_graphics, pl_order, pl_out>>
unpackVars  == <<up_n, up_indices, up_longs, up_out>>
chunkVars   == <<ch_nbt, ch_out, ch_block>>
regionVars  == <<rg_file, rg_out, rg_block>>
nbtVars     == <<nb_bytes, nb_out>>
imageVars   == <<im_png, im_taint, im_out>>
decoderVars == <<paletteVars, unpackVars, chunkVars, regionVars, nbtVars, imageVars>>
renderVars  == <<cacheVars, taskVars>>
vars        == <<renderVars, decoderVars>>

----------------------------------------------------------------------------
(* Bounds *)

NumTasks == 2

Tasks == 1..NumTasks

----------------------------------------------------------------------------
(* Option<T> as a set with at most one element *)

None == {}

Some(v) == {v}

Unwrap(o) == CHOOSE v \in o : TRUE

----------------------------------------------------------------------------
(* The resource tree read by the loader: resources/blockstates,           *)
(* resources/models, resources/textures, settings/.                       *)

Key(name, properties) == <<name, properties>>

Stone   == Key("minecraft:stone", "")
Glass   == Key("minecraft:glass", "")
Leaves  == Key("minecraft:oak_leaves", "")
LogY    == Key("minecraft:oak_log", "axis=y")
LogQ    == Key("minecraft:oak_log", "axis=q")
Fence   == Key("minecraft:oak_fence", "")
Barrier == Key("minecraft:barrier", "")
Air     == Key("minecraft:air", "")
Stained == Key("minecraft:white_stained_glass", "")

Keys == {Stone, Glass, Leaves, LogY, LogQ, Fence, Barrier, Air, Stained}

\* settings/ignore_blocks.json
ignore == {"minecraft:air"}

\* settings/biome_blocks.json
biome_blocks == [n \in {"minecraft:oak_leaves"} |-> <<-60, 40, -300>>]

\* resources/blockstates/<stem>.json: the "variants" object, if the file has one
\* (oak_fence is a multipart blockstate and has none).
Blockstates ==
    [n \in {"minecraft:stone", "minecraft:glass", "minecraft:oak_leaves",
            "minecraft:oak_log", "minecraft:oak_fence", "minecraft:barrier",
            "minecraft:white_stained_glass"} |->
        CASE n = "minecraft:stone"      -> Some([p \in {""} |-> "block/stone"])
          [] n = "minecraft:glass"      -> Some([p \in {""} |-> "block/glass"])
          [] n = "minecraft:oak_leaves" -> Some([p \in {""} |-> "block/oak_leaves"])
          [] n = "minecraft:oak_log"    ->
                Some([p \in {"axis=x", "axis=y", "axis=z"} |->
                        IF p = "axis=y" THEN "block/oak_log" ELSE "block/oak_log_horizontal"])
          [] n = "minecraft:oak_fence"  -> None
          [] n = "minecraft:barrier"    -> Some([p \in {""} |-> "block/barrier"])
          [] n = "minecraft:white_stained_glass" ->
                Some([p \in {""} |-> "block/white_stained_glass"])]

\* resources/models/<model>.json: the "textures" object, if the file has one
Models ==
    [m \in {"block/stone", "block/glass", "block/oak_leaves", "block/oak_log",
            "block/oak_log_horizontal", "block/barrier",
            "block/white_stained_glass"} |->
        CASE m = "block/stone"      -> Some([f \in {"all"} |-> "block/stone"])
          [] m = "block/glass"      -> Some([f \in {"all"} |-> "block/glass"])
          [] m = "block/oak_leaves" -> Some([f \in {"all"} |-> "block/oak_leaves"])
          [] m = "block/oak_log"    ->
                Some([f \in {"top", "side", "particle"} |->
                        IF f = "top" THEN "block/oak_log_top" ELSE "block/oak_log"])
          [] m = "block/oak_log_horizontal" ->
                Some([f \in {"side", "end"} |-> "block/oak_log"])
          [] m = "block/barrier"    -> None
          [] m = "block/white_stained_glass" ->
                Some([f \in {"all"} |-> "block/white_stained_glass"])]

\* resources/textures/<texture>.png, cropped: a sequence of RGBA pixels
Pngs ==
    [t \in {"block/stone", "block/glass", "block/oak_leaves", "block/oak_log_top",
            "block/oak_log", "block/white_stained_glass"} |->
        CASE t = "block/stone"       -> <<<<125, 125, 125, 255>>, <<130, 128, 126, 255>>>>
          [] t = "block/glass"       -> <<<<200, 220, 230, 255>>, <<0, 0, 0, 0>>>>
          [] t = "block/oak_leaves"  -> <<<<100, 100, 100, 255>>, <<240, 240, 240, 0>>>>
          [] t = "block/oak_log_top" -> <<<<150, 120, 70, 255>>, <<160, 130, 80, 255>>>>
          [] t = "block/oak_log"     -> <<<<100, 80, 50, 255>>, <<110, 90, 60, 255>>>>
          [] t = "block/white_stained_glass" ->
                <<<<255, 255, 255, 160>>, <<255, 255, 255, 110>>>>]

----------------------------------------------------------------------------
(* loader.rs: image helpers *)

RECURSIVE SumChannel(_, _)
\* Sum of channel c over the pixels whose alpha is non-zero (loader.rs:11-18)
SumChannel(img, c) ==
    IF img = <<>> THEN 0
    ELSE (IF Head(img)[4] # 0 THEN Head(img)[c] ELSE 0) + SumChannel(Tail(img), c)

\* loader.rs:6-21; n starts at 1 and counts the pixels with non-zero alpha
image_avg(img) ==
    LET n == 1 + Cardinality({i \in 1..Len(img) : img[i][4] # 0})
    IN  <<(SumChannel(img, 1) \div n) % 256,
          (SumChannel(img, 2) \div n) % 256,
          (SumChannel(img, 3) \div n) % 256>>

\* loader.rs:23-31
clamp(value, min, max) ==
    IF value > max THEN max ELSE IF value < min THEN min ELSE value

\* i16 addition as the release build computes it (two's complement wrap)
AddI16(a, b) == ((a + b + 32768) % 65536) - 32768

\* loader.rs:33-39: channels 1..3 are tinted, alpha (4) is left alone
taint_image(img, taint) ==
    [i \in 1..Len(img) |->
        [c \in 1..4 |->
            IF c <= 3 THEN clamp(AddI16(img[i][c], taint[c]), 0, 255) ELSE img[i][c]]]

\* loader.rs:86-93
is_transparent(img) == \E i \in 1..Len(img) : img[i][4] # 255

----------------------------------------------------------------------------
(* loader.rs: resolution.  A result is [panic |-> BOOLEAN, value |-> Option] *)

Ok(v) == [panic |-> FALSE, value |-> v]

Panic == [panic |-> TRUE, value |-> None]

\* loader.rs:41-61
get_texture(model) ==
    IF model \notin DOMAIN Models THEN Panic          \* read_to_string(..).unwrap()
    ELSE IF Models[model] = None THEN Ok(None)         \* no "textures"
    ELSE LET tex == Unwrap(Models[model])
         IN  IF "top" \in DOMAIN tex THEN Ok(Some(tex["top"]))
             ELSE IF "all" \in DOMAIN tex THEN Ok(Some(tex["all"]))
             ELSE IF "particle" \in DOMAIN tex THEN Ok(Some(tex["particle"]))
             ELSE Ok(None)

\* loader.rs:63-84
get_model(name, properties) ==
    IF name \notin DOMAIN Blockstates THEN Panic       \* read_to_string(..).unwrap()
    ELSE IF Blockstates[name] = None THEN Ok(None)     \* no "variants"
    ELSE LET variants == Unwrap(Blockstates[name])
         IN  IF properties \in DOMAIN variants
             THEN Ok(Some(variants[properties]))
             ELSE Panic                                \* panic!("Couldn't find model ..")

\* loader.rs:129-142: the texture record pushed for a resolved texture
TextureRecord(name, texture) ==
    LET png   == Pngs[texture]
        image == IF name \in DOMAIN biome_blocks
                 THEN taint_image(png, biome_blocks[name]) ELSE png
    IN  [image |-> image, is_transparent |-> is_transparent(image), avg |-> image_avg(image)]

\* loader.rs:126-156: the part of load after the map check.
\* [panic, push (Option of a record)]: what resolving (name, properties) does.
Resolve(name, properties) ==
    LET model == get_model(name, properties)
    IN  IF model.panic THEN [panic |-> TRUE, push |-> None]
        ELSE IF model.value = None THEN [panic |-> FALSE, push |-> None]
        ELSE LET texture == get_texture(Unwrap(model.value))
             IN  IF texture.panic THEN [panic |-> TRUE, push |-> None]
                 ELSE IF texture.value = None THEN [panic |-> FALSE, push |-> None]
                 ELSE IF Unwrap(texture.value) \notin DOMAIN Pngs
                      THEN [panic |-> TRUE, push |-> None]   \* image::open(..).unwrap()
                      ELSE [panic |-> FALSE,
                            push  |-> Some(TextureRecord(name, Unwrap(texture.value)))]

\* TextureLoader::index: read-only lookup, None for an unknown or unloadable key
TextureLoader_index(map, key) ==
    IF key \in DOMAIN map THEN map[key] ELSE None

\* A get_texture that hands out the record pushed last
TextureLoader_get_texture_last(texs, h) == texs[Len(texs)]

\* loader.rs:113-115
TextureLoader_get_texture(texs, h) == texs[h + 1]

----------------------------------------------------------------------------
(* nbt.rs: the NBT decoder over a byte buffer.  bytes is a sequence of     *)
(* 0..255, pos the cursor (1-based index of the next byte).  A read        *)
(* returns [st, pos, tag] with st "ok", "err" (io::Error) or "panic".      *)
(* Strings are their UTF-8 bytes; Short..Double and the elements of        *)
(* IntArray / LongArray are kept as the big-endian bytes read.             *)

Tag(id, v) == [id |-> id, v |-> v]

ROk(pos, tag) == [st |-> "ok", pos |-> pos, tag |-> tag]

RErr == [st |-> "err", pos |-> 0, tag |-> Tag(0, 0)]

RPanic == [st |-> "panic", pos |-> 0, tag |-> Tag(0, 0)]

\* Cursor: are n more bytes there?
Has(bytes, pos, n) == pos + n - 1 <= Len(bytes)

Take(bytes, pos, n) == [i \in 1..n |-> bytes[pos + i - 1]]

\* read_i8
I8(b) == IF b >= 128 THEN b - 256 ELSE b

\* read_u16::<BigEndian>
U16(bytes, pos) == bytes[pos] * 256 + bytes[pos + 1]

\* read_i32::<BigEndian>
I32(bytes, pos) ==
    I8(bytes[pos]) * 16777216 + bytes[pos + 1] * 65536
        + bytes[pos + 2] * 256 + bytes[pos + 3]

\* String::from_utf8 on the buffers the model feeds: ASCII is valid, a byte
\* with the top bit set stands for an invalid sequence.
Utf8Ok(bs) == \A i \in 1..Len(bs) : bs[i] < 128

\* nbt.rs:182-204: read_byte .. read_double, by width
ReadFixed(bytes, pos, id, width) ==
    IF ~Has(bytes, pos, width) THEN RErr
    ELSE IF id = 1 THEN ROk(pos + 1, Tag(1, I8(bytes[pos])))
    ELSE ROk(pos + width, Tag(id, Take(bytes, pos, width)))

\* nbt.rs:175-180 and 217-224: a u16 length, then that many UTF-8 bytes
ReadUtf(bytes, pos) ==
    IF ~Has(bytes, pos, 2) THEN RErr
    ELSE LET n == U16(bytes, pos)
         IN  IF ~Has(bytes, pos + 2, n) THEN RErr
             ELSE IF ~Utf8Ok(Take(bytes, pos + 2, n)) THEN RPanic
             ELSE ROk(pos + 2 + n, Tag(8, Take(bytes, pos + 2, n)))

\* nbt.rs:175-180
read_name(bytes, pos) == ReadUtf(bytes, pos)

\* nbt.rs:217-224
read_string(bytes, pos) == ReadUtf(bytes, pos)

\* nbt.rs:206-215, 238-258: an i32 length, then that many elements of width w
ReadArray(bytes, pos, id, w) ==
    IF ~Has(bytes, pos, 4) THEN RErr
    ELSE LET n == I32(bytes, pos)
         IN  IF n < 0 THEN RPanic                      \* vec![0; length as usize]
             ELSE IF ~Has(bytes, pos + 4, n * w) THEN RErr
             ELSE ROk(pos + 4 + n * w,
                      Tag(id, [i \in 1..n |->
                                 IF w = 1 THEN I8(bytes[pos + 4 + i - 1])
                                 ELSE Take(bytes, pos + 4 + (i - 1) * w, w)]))

RECURSIVE read_id(_, _, _)
RECURSIVE CompoundLoop(_, _, _)
RECURSIVE ListLoop(_, _, _, _, _)

\* nbt.rs:160-171: the `while let Ok(tag_id) = read_u8()` loop of
\* read_compound, comp being the entries inserted so far
CompoundLoop(bytes, pos, comp) ==
    IF ~Has(bytes, pos, 1) THEN ROk(pos, Tag(10, comp))       \* loop ends, line 171
    ELSE IF bytes[pos] = 0 THEN ROk(pos + 1, Tag(10, comp))   \* line 163
    ELSE LET name == read_name(bytes, pos + 1)
         IN  IF name.st # "ok" THEN [name EXCEPT !.tag = Tag(0, 0)]
             ELSE LET body == read_id(bytes, name.pos, bytes[pos])
                  IN  IF body.st # "ok" THEN body
                      ELSE CompoundLoop(bytes, body.pos,
                                        (name.tag.v :> body.tag) @@ comp)

\* nbt.rs:158-172
read_compound(bytes, pos) == CompoundLoop(bytes, pos, <<>>)

\* nbt.rs:231-233: the loop of read_list, left elements to go
ListLoop(bytes, pos, id, left, tags) ==
    IF left <= 0 THEN ROk(pos, Tag(9, tags))
    ELSE LET e == read_id(bytes, pos, id)
         IN  IF e.st # "ok" THEN e
             ELSE ListLoop(bytes, e.pos, id, left - 1, Append(tags, e.tag))

\* nbt.rs:226-236
read_list(bytes, pos) ==
    IF ~Has(bytes, pos, 5) THEN RErr
    ELSE ListLoop(bytes, pos + 5, bytes[pos], I32(bytes, pos + 1), <<>>)

\* nbt.rs:138-154
read_id(bytes, pos, id) ==
    CASE id = 1  -> ReadFixed(bytes, pos, 1, 1)
      [] id = 2  -> ReadFixed(bytes, pos, 2, 2)
      [] id = 3  -> ReadFixed(bytes, pos, 3, 4)
      [] id = 4  -> ReadFixed(bytes, pos, 4, 8)
      [] id = 5  -> ReadFixed(bytes, pos, 5, 4)
      [] id = 6  -> ReadFixed(bytes, pos, 6, 8)
      [] id = 7  -> ReadArray(bytes, pos, 7, 1)
      [] id = 8  -> read_string(bytes, pos)
      [] id = 9  -> read_list(bytes, pos)
      [] id = 10 -> read_compound(bytes, pos)
      [] id = 11 -> ReadArray(bytes, pos, 11, 4)
      [] id = 12 -> ReadArray(bytes, pos, 12, 8)
      [] OTHER   -> RPanic                                   \* "Unknown tag type"

\* Tag::as_compound .. as_list (nbt.rs:37-124): Some(v) when the variant matches
As(tag, id) == IF tag.id = id THEN Some(tag.v) ELSE None

----------------------------------------------------------------------------
(* Strings of the decoders, as their UTF-8 bytes *)

\* "Palette"
S_Palette == <<80, 97, 108, 101, 116, 116, 101>>

\* "BlockStates"
S_BlockStates == <<66, 108, 111, 99, 107, 83, 116, 97, 116, 101, 115>>

\* "Y"
S_Y == <<89>>

\* "Name"
S_Name == <<78, 97, 109, 101>>

\* "Properties"
S_Properties == <<80, 114, 111, 112, 101, 114, 116, 105, 101, 115>>

\* "Sections"
S_Sections == <<83, 101, 99, 116, 105, 111, 110, 115>>

\* "Level"
S_Level == <<76, 101, 118, 101, 108>>

\* "minecraft:stone"
S_stone == <<109, 105, 110, 101, 99, 114, 97, 102, 116, 58, 115, 116, 111, 110, 101>>

\* "minecraft:chest"
S_chest == <<109, 105, 110, 101, 99, 114, 97, 102, 116, 58, 99, 104, 101, 115, 116>>

\* "minecraft:piston"
S_piston == <<109, 105, 110, 101, 99, 114, 97, 102, 116, 58, 112, 105, 115, 116, 111, 110>>

\* "axis"
S_axis == <<97, 120, 105, 115>>

\* "facing"
S_facing == <<102, 97, 99, 105, 110, 103>>

\* "waterlogged"
S_waterlogged == <<119, 97, 116, 101, 114, 108, 111, 103, 103, 101, 100>>

\* "type"
S_type == <<116, 121, 112, 101>>

\* "y"
S_y == <<121>>

\* "north"
S_north == <<110, 111, 114, 116, 104>>

\* "true"
S_true == <<116, 114, 117, 101>>

\* "single"
S_single == <<115, 105, 110, 103, 108, 101>>

\* ','
Comma == 44

\* '='
Equals == 61

----------------------------------------------------------------------------
(* map.rs: ChunkSection::new, the palette part (map.rs:122-174) *)

\* String::pop: the last character goes, if there is one
Pop(str) == IF str = <<>> THEN <<>> ELSE SubSeq(str, 1, Len(str) - 1)

\* format!("{}={}", key, value)  (map.rs:146-152)
KeyValue(key, value) == key \o <<Equals>> \o value

\* All the orders in which a HashMap with the key set S can be iterated
Orders(S) ==
    {o \in [1..Cardinality(S) -> S] : \A i, j \in 1..Cardinality(S) : o[i] = o[j] => i = j}

\* A slot taken from the position in the iteration instead of the index
SlotIndex_iteration(graphics, key, i) == i - 1

\* map.rs:156-157: the slot of a graphic key, met as the i-th entry of the
\* iteration, is the index the graphic-property index holds for it
SlotIndex(graphics, key, i) == graphics[key]

RECURSIVE PropLoop(_, _, _, _, _)
\* map.rs:143-159: `for (key, value) in block_properties`, in the order
\* `order`, from its i-th entry on.  [st, prop_list, graphic_list]
PropLoop(props, graphics, order, i, acc) ==
    IF i > Len(order) THEN acc
    ELSE LET key   == order[i]
             value == As(props[key], 8)
         IN  IF value = None
             THEN [acc EXCEPT !.st = "panic"]     \* "Could not parse block value as String"
             ELSE LET text == KeyValue(key, Unwrap(value))
                      pl   == acc.prop_list \o text
                  IN  IF key \in DOMAIN graphics
                      THEN IF SlotIndex(graphics, key, i) + 1 \in DOMAIN acc.graphic_list
                           THEN PropLoop(props, graphics, order, i + 1,
                                    [acc EXCEPT !.prop_list = pl,
                                                !.graphic_list[SlotIndex(graphics, key, i) + 1] = text])
                           ELSE [acc EXCEPT !.st = "panic"]   \* index out of bounds
                      ELSE PropLoop(props, graphics, order, i + 1,
                                    [acc EXCEPT !.prop_list = pl])

RECURSIVE JoinSlots(_)
\* map.rs:166-167: every slot followed by ','
JoinSlots(slots) ==
    IF slots = <<>> THEN <<>>
    ELSE Head(slots) \o <<Comma>> \o JoinSlots(Tail(slots))

\* map.rs:125-173: one `for block in palette` iteration.  order is the
\* iteration order of the Properties compound (ignored when there is none).
\* [st, name, prop_list, graphic_list]
PaletteEntry(block_tag, graphic_set, order) ==
    LET bad == [st |-> "panic", name |-> <<>>, prop_list |-> <<>>, graphic_list |-> <<>>]
    IN  IF As(block_tag, 10) = None THEN bad
        ELSE LET block == Unwrap(As(block_tag, 10))
        IN  IF S_Name \notin DOMAIN block THEN bad
        ELSE IF As(block[S_Name], 8) = None THEN bad
        ELSE LET name == Unwrap(As(block[S_Name], 8))
        IN  IF name \notin DOMAIN graphic_set THEN bad
        ELSE LET graphics == graphic_set[name]
                 empty    == [i \in 1..Cardinality(DOMAIN graphics) |-> <<>>]
                 start    == [st |-> "ok", prop_list |-> <<>>, graphic_list |-> empty]
        IN  IF S_Properties \notin DOMAIN block
            THEN [st |-> "ok", name |-> name, prop_list |-> <<>>,
                  graphic_list |-> Pop(JoinSlots(empty))]
            ELSE IF As(block[S_Properties], 10) = None THEN bad
            ELSE LET props == Unwrap(As(block[S_Properties], 10))
                     r     == PropLoop(props, graphics, order, 1, start)
                 IN  IF r.st # "ok" THEN bad
                     ELSE [st |-> "ok", name |-> name,
                           prop_list |-> Pop(r.prop_list),
                           graphic_list |-> Pop(JoinSlots(r.graphic_list))]

\* The Properties keys of a palette entry, {} when it has none
PropertyKeys(block_tag) ==
    IF As(block_tag, 10) = None THEN {}
    ELSE LET block == Unwrap(As(block_tag, 10))
         IN  IF S_Properties \notin DOMAIN block THEN {}
             ELSE IF As(block[S_Properties], 10) = None THEN {}
             ELSE DOMAIN Unwrap(As(block[S_Properties], 10))

----------------------------------------------------------------------------
(* loader.rs: load_graphic_props (loader.rs:178-219), for one blockstate   *)
(* file: variants is the sequence of its variant keys as iterated.         *)

RECURSIVE Split(_, _)
\* str::split(sep): the pieces between the separators
Split(str, sep) ==
    IF \A i \in 1..Len(str) : str[i] # sep THEN <<str>>
    ELSE LET at == CHOOSE i \in 1..Len(str) :
                       str[i] = sep /\ \A j \in 1..(i - 1) : str[j] # sep
         IN  <<SubSeq(str, 1, at - 1)>> \o Split(SubSeq(str, at + 1, Len(str)), sep)

RECURSIVE PropValuesLoop(_, _, _)
\* loader.rs:204-211: `for (i, prop_value) in propvalues.enumerate()`
PropValuesLoop(propvalues, i, used) ==
    IF i > Len(propvalues) THEN used
    ELSE LET prop == Split(propvalues[i], Equals)[1]
         IN  PropValuesLoop(propvalues, i + 1,
                 IF prop # <<>> THEN (prop :> (i - 1)) @@ used ELSE used)

RECURSIVE VariantsLoop(_, _, _)
\* loader.rs:201-212: `for variant in variants.keys()`
VariantsLoop(variants, v, used) ==
    IF v > Len(variants) THEN used
    ELSE VariantsLoop(variants, v + 1,
                      PropValuesLoop(Split(variants[v], Comma), 1, used))

\* loader.rs:194-213: used_variants of one blockstate file
used_variants(variants) == VariantsLoop(variants, 1, <<>>)

----------------------------------------------------------------------------
(* map.rs: ChunkSection::new, the index part (map.rs:176-205), Chunk::new  *)

\* Blocks in a section: 16 x 16 x 16 (map.rs:193, 195)
SectionBlocks == 4096

\* The smallest number of bits per block (map.rs:194)
MinBlockBits == 4

\* Sections in a chunk (map.rs:250)
ChunkSections == 16

Pow2(k) == 2 ^ k

\* The bytes of a long written most significant byte first
write_i64_be(long) == long

\* LittleEndian::write_i64 (map.rs:184-187): a long, kept as the 8 bytes
\* read big-endian, written least significant byte first
write_i64_le(long) == [i \in 1..Len(long) |-> long[Len(long) + 1 - i]]

\* map.rs:182-189: the longs flattened into one little-endian byte array
StatesBytes(longs) ==
    [b \in 1..(8 * Len(longs)) |-> write_i64_le(longs[((b - 1) \div 8) + 1])[((b - 1) % 8) + 1]]

RECURSIVE ReadBitsFrom(_, _, _, _)
\* map.rs:88-95: bits j..n-1 of the number
ReadBitsFrom(bytes, start, n, j) ==
    IF j >= n THEN 0
    ELSE LET bit    == start + j
             binary == (bytes[(bit \div 8) + 1] \div Pow2(bit % 8)) % 2 # 0
         IN  (IF binary THEN Pow2(j) ELSE 0) + ReadBitsFrom(bytes, start, n, j + 1)

\* map.rs:86-97
read_bits(bytes, start, n) == ReadBitsFrom(bytes, start, n, 0)

\* map.rs:193-194
BlockBits(states) ==
    LET block_bits == (Len(states) * 8) \div SectionBlocks
    IN  IF block_bits > MinBlockBits THEN block_bits ELSE MinBlockBits

\* map.rs:195-199: [st, indexes]; read_bits panics when it indexes past
\* the end of the byte array
UnpackIndexes(states) ==
    LET block_bits == BlockBits(states)
    IN  IF ((SectionBlocks * block_bits - 1) \div 8) + 1 > Len(states)
        THEN [st |-> "panic", indexes |-> <<>>]
        ELSE [st |-> "ok",
              indexes |-> [i \in 1..SectionBlocks |->
                              read_bits(states, (i - 1) * block_bits, block_bits)]]

Max(S) == CHOOSE m \in S : \A e \in S : e <= m

\* An index check that lets every index through
IndexesCheck_none(names, indexes) == TRUE

\* map.rs:202-205: does the assert pass?  With no name and some index,
\* names.len() - 1 underflows: an overflow panic, or usize::MAX which no
\* index equals.
IndexesCheck(names, indexes) ==
    indexes = <<>> \/ (names # <<>> /\ Max({indexes[i] : i \in DOMAIN indexes}) = Len(names) - 1)

RECURSIVE PaletteLoop(_, _, _, _, _)
\* map.rs:124-174: `for block in palette`; orders[i] is the order in which
\* the Properties of the i-th block are iterated
PaletteLoop(palette, graphic_set, orders, i, acc) ==
    IF i > Len(palette) THEN acc
    ELSE LET e == PaletteEntry(palette[i], graphic_set, orders[i])
         IN  IF e.st # "ok" THEN [acc EXCEPT !.st = "panic"]
             ELSE PaletteLoop(palette, graphic_set, orders, i + 1,
                     [acc EXCEPT !.names = Append(@, e.name),
                                 !.properties = Append(@, e.prop_list),
                                 !.graphic_props = Append(@, e.graphic_list)])

EmptySection == [st |-> "ok", names |-> <<>>, properties |-> <<>>,
                 graphic_props |-> <<>>, indexes |-> <<>>, y |-> 0]

\* map.rs:116-217.  [st, names, properties, graphic_props, indexes, y]
ChunkSection_new(section, graphic_set, orders) ==
    LET bad == [EmptySection EXCEPT !.st = "panic"]
        pal == IF S_Palette \notin DOMAIN section THEN EmptySection
               ELSE IF As(section[S_Palette], 9) = None THEN bad
               ELSE LET p == PaletteLoop(Unwrap(As(section[S_Palette], 9)),
                                         graphic_set, orders, 1, EmptySection)
                    IN  IF p.st # "ok" THEN bad
                        ELSE IF S_BlockStates \notin DOMAIN section THEN bad
                        ELSE IF As(section[S_BlockStates], 12) = None THEN bad
                        ELSE LET u == UnpackIndexes(
                                        StatesBytes(Unwrap(As(section[S_BlockStates], 12))))
                             IN  IF u.st # "ok" THEN bad
                                 ELSE [p EXCEPT !.indexes = u.indexes]
    IN  IF pal.st # "ok" THEN bad
        ELSE IF ~IndexesCheck(pal.names, pal.indexes) THEN bad
        ELSE IF S_Y \notin DOMAIN section THEN bad
        ELSE IF As(section[S_Y], 1) = None THEN bad
        ELSE [pal EXCEPT !.y = Unwrap(As(section[S_Y], 1))]

\* The ChunkSection of a decoded section (map.rs:209-214)
SectionOf(r) ==
    [names |-> r.names, properties |-> r.properties,
     graphic_props |-> r.graphic_props, indexes |-> r.indexes]

RECURSIVE PaletteOrders(_)
\* Every choice of iteration orders for the Properties of a palette's blocks
PaletteOrders(palette) ==
    IF palette = <<>> THEN {<<>>}
    ELSE {<<o>> \o rest : o \in Orders(PropertyKeys(Head(palette))),
                          rest \in PaletteOrders(Tail(palette))}

\* The palette list of a section compound, <<>> when it has none
PaletteOf(section_tag) ==
    IF As(section_tag, 10) = None THEN <<>>
    ELSE LET section == Unwrap(As(section_tag, 10))
         IN  IF S_Palette \notin DOMAIN section THEN <<>>
             ELSE IF As(section[S_Palette], 9) = None THEN <<>>
             ELSE Unwrap(As(section[S_Palette], 9))

RECURSIVE SectionsOrders(_)
\* Every choice of iteration orders for a list of sections
SectionsOrders(sections_nbt) ==
    IF sections_nbt = <<>> THEN {<<>>}
    ELSE {<<o>> \o rest : o \in PaletteOrders(PaletteOf(Head(sections_nbt))),
                          rest \in SectionsOrders(Tail(sections_nbt))}

RECURSIVE SectionsLoop(_, _, _, _, _)
\* map.rs:254-264: `for section_nbt in sections_nbt`; orders[i] holds the
\* iteration orders for the i-th section.  [st, sections]
SectionsLoop(sections_nbt, graphic_set, orders, i, sections) ==
    IF i > Len(sections_nbt) THEN [st |-> "ok", sections |-> sections]
    ELSE IF As(sections_nbt[i], 10) = None THEN [st |-> "panic", sections |-> <<>>]
    ELSE LET r == ChunkSection_new(Unwrap(As(sections_nbt[i], 10)), graphic_set, orders[i])
         IN  IF r.st # "ok" THEN [st |-> "panic", sections |-> <<>>]
             ELSE IF r.y # -1 /\ r.names # <<>>
             THEN IF r.y >= 0 /\ r.y < ChunkSections        \* sections[y as usize]
                  THEN SectionsLoop(sections_nbt, graphic_set, orders, i + 1,
                           [sections EXCEPT ![r.y + 1] = Some(SectionOf(r))])
                  ELSE [st |-> "panic", sections |-> <<>>]
             ELSE SectionsLoop(sections_nbt, graphic_set, orders, i + 1, sections)

\* map.rs:248-267.  [st, sections]
Chunk_new(chunk_nbt, graphic_set, orders) ==
    IF S_Sections \notin DOMAIN chunk_nbt THEN [st |-> "panic", sections |-> <<>>]
    ELSE IF As(chunk_nbt[S_Sections], 9) = None THEN [st |-> "panic", sections |-> <<>>]
    ELSE SectionsLoop(Unwrap(As(chunk_nbt[S_Sections], 9)), graphic_set, orders, 1,
                      [i \in 1..ChunkSections |-> None])

\* map.rs:19
CHUNK_SIZE == 16

\* map.rs:17
SECTION_SIZE == 16

\* map.rs:14, "minecraft:air"
EMPTY_BLOCK == <<109, 105, 110, 101, 99, 114, 97, 102, 116, 58, 97, 105, 114>>

\* map.rs:219-221
get_index(x, yy, z) == yy * CHUNK_SIZE * CHUNK_SIZE + z * CHUNK_SIZE + x

\* map.rs:225-239: get_block, get_prop and get_gprop of a section, each
\* [st, v]; indexing past the end of a Vec panics
SectionLookup(section, list, x, yy, z) ==
    IF get_index(x, yy, z) + 1 \notin DOMAIN section.indexes
    THEN [st |-> "panic", v |-> <<>>]
    ELSE LET i == section.indexes[get_index(x, yy, z) + 1]
         IN  IF i + 1 \notin DOMAIN list THEN [st |-> "panic", v |-> <<>>]
             ELSE [st |-> "ok", v |-> list[i + 1]]

\* map.rs:225-228
ChunkSection_get_block(section, x, yy, z) == SectionLookup(section, section.names, x, yy, z)

\* map.rs:231-234
ChunkSection_get_prop(section, x, yy, z) == SectionLookup(section, section.properties, x, yy, z)

\* map.rs:236-239
ChunkSection_get_gprop(section, x, yy, z) == SectionLookup(section, section.graphic_props, x, yy, z)

\* map.rs:268-275
Chunk_get_block(sections, x, yy, z) ==
    LET i == yy \div SECTION_SIZE
    IN  IF i + 1 \notin DOMAIN sections THEN [st |-> "panic", v |-> <<>>]
        ELSE IF sections[i + 1] # None
        THEN ChunkSection_get_block(Unwrap(sections[i + 1]), x, yy % SECTION_SIZE, z)
        ELSE [st |-> "ok", v |-> EMPTY_BLOCK]

\* map.rs:278-285
Chunk_get_prop(sections, x, yy, z) ==
    LET i == yy \div SECTION_SIZE
    IN  IF i + 1 \notin DOMAIN sections THEN [st |-> "panic", v |-> <<>>]
        ELSE IF sections[i + 1] # None
        THEN ChunkSection_get_prop(Unwrap(sections[i + 1]), x, yy % SECTION_SIZE, z)
        ELSE [st |-> "ok", v |-> <<>>]

\* map.rs:287-294
Chunk_get_gprop(sections, x, yy, z) ==
    LET i == yy \div SECTION_SIZE
    IN  IF i + 1 \notin DOMAIN sections THEN [st |-> "panic", v |-> <<>>]
        ELSE IF sections[i + 1] # None
        THEN ChunkSection_get_gprop(Unwrap(sections[i + 1]), x, yy % SECTION_SIZE, z)
        ELSE [st |-> "ok", v |-> <<>>]

----------------------------------------------------------------------------
(* Regions handed to the rasterizer tasks: columns of (name, graphic       *)
(* properties) as Region::get_block / get_gprop return them, top first.    *)

Regions ==
    { << <<Air, Stone>>, <<Glass, Stone>> >>,
      << <<Fence, Stone>>, <<Air>> >>,
      << <<Stone>>, <<LogQ, Stone>> >>,
      << <<Leaves>>, <<Barrier, LogY>> >> }

\* The block a task is looking at (renderer.rs:36-38)
Candidate(t) == region[t][col[t]][y[t]]

Black == <<0, 0, 0>>

----------------------------------------------------------------------------
(* Initial state: an empty TextureLoader (loader.rs:105-111) behind an     *)
(* unlocked RwLock, one task per region, none started.                     *)

\* The decoders at rest, while the rasterizer tasks run
PaletteIdle ==
    /\ pl_variants = {}
    /\ pl_block = <<>>
    /\ pl_graphics = None
    /\ pl_order = <<>>
    /\ pl_out = None

UnpackIdle == up_n = 0 /\ up_indices = <<>> /\ up_longs = <<>> /\ up_out = None

ChunkIdle == ch_nbt = <<>> /\ ch_out = None /\ ch_block = None

RegionIdle == rg_file = <<>> /\ rg_out = None /\ rg_block = None

NbtIdle == nb_bytes = <<>> /\ nb_out = None

ImageIdle == im_png = <<>> /\ im_taint = <<0, 0, 0>> /\ im_out = None

Init ==
    /\ PaletteIdle /\ UnpackIdle /\ ChunkIdle /\ RegionIdle /\ NbtIdle /\ ImageIdle
    /\ textures = <<>>
    /\ textures_map = <<>>
    /\ readers = {}
    /\ writer = {}
    /\ poisoned = FALSE
    /\ region \in [Tasks -> Regions]
    /\ pc = [t \in Tasks |-> "scan"]
    /\ col = [t \in Tasks |-> 1]
    /\ y = [t \in Tasks |-> 1]
    /\ index = [t \in Tasks |-> None]
    /\ raster = [t \in Tasks |-> <<>>]
    /\ cause = [t \in Tasks |-> "none"]
    /\ appended = [k \in Keys |-> 0]
    /\ loads = [k \in Keys |-> 0]
    /\ resolved = [k \in Keys |-> 0]

----------------------------------------------------------------------------
(* image_chunk (renderer.rs:28-58), one task t *)

\* The closure returns `pixel` for the current column: ImageBuffer::from_fn
\* moves to the next column, or the raster is complete.
EmitPixel(t, pixel) ==
    /\ raster' = [raster EXCEPT ![t] = Append(@, pixel)]
    /\ col' = [col EXCEPT ![t] = @ + 1]
    /\ y' = [y EXCEPT ![t] = 1]
    /\ pc' = [pc EXCEPT ![t] = IF col[t] = Len(region[t]) THEN "done" ELSE "scan"]

\* renderer.rs:35-38 and 56: the head of `for y in (0..256).rev()`
Scan(t) ==
    /\ pc[t] = "scan"
    /\ UNCHANGED decoderVars
    /\ IF y[t] > Len(region[t][col[t]])
       THEN EmitPixel(t, Black)
       ELSE /\ IF Candidate(t)[1] \in ignore
               THEN /\ y' = [y EXCEPT ![t] = @ + 1]
                    /\ pc' = pc
               ELSE /\ pc' = [pc EXCEPT ![t] = "read"]
                    /\ y' = y
            /\ UNCHANGED <<raster, col>>
    /\ UNCHANGED <<cacheVars, region, index, cause>>

\* A panicking task unwinds: it is over, with the reason recorded
PanicTask(t, why) ==
    /\ pc' = [pc EXCEPT ![t] = "failed"]
    /\ cause' = [cause EXCEPT ![t] = why]

\* renderer.rs:41: textures.read().unwrap()
ReadLock(t) ==
    /\ pc[t] = "read"
    /\ UNCHANGED decoderVars
    /\ writer = {}
    /\ IF poisoned
       THEN PanicTask(t, "poisoned") /\ UNCHANGED readers
       ELSE /\ readers' = readers \cup {t}
            /\ pc' = [pc EXCEPT ![t] = "index"]
            /\ UNCHANGED cause
    /\ UNCHANGED <<textures, textures_map, writer, poisoned, appended, loads, resolved,
                   region, col, y, index, raster>>

\* An index whose read guard outlives the block it was taken in
Index_keeps_guard(t) ==
    /\ pc[t] = "index"
    /\ UNCHANGED decoderVars
    /\ index' = [index EXCEPT ![t] = TextureLoader_index(textures_map, Candidate(t))]
    /\ pc' = [pc EXCEPT ![t] = IF index'[t] # None THEN "getlock" ELSE "write"]
    /\ UNCHANGED <<textures, textures_map, readers, writer, poisoned, appended, loads,
                   resolved, region, col, y, raster, cause>>

\* renderer.rs:42-43: textures.index(candidate, properties), guard dropped
Index(t) ==
    /\ pc[t] = "index"
    /\ UNCHANGED decoderVars
    /\ index' = [index EXCEPT ![t] = TextureLoader_index(textures_map, Candidate(t))]
    /\ readers' = readers \ {t}
    /\ pc' = [pc EXCEPT ![t] = IF index'[t] # None THEN "getlock" ELSE "write"]
    /\ UNCHANGED <<textures, textures_map, writer, poisoned, appended, loads, resolved,
                   region, col, y, raster, cause>>

\* renderer.rs:45: textures.write().unwrap()
WriteLock(t) ==
    /\ pc[t] = "write"
    /\ UNCHANGED decoderVars
    /\ writer = {}
    /\ readers = {}
    /\ IF poisoned
       THEN PanicTask(t, "poisoned") /\ UNCHANGED writer
       ELSE /\ writer' = {t}
            /\ pc' = [pc EXCEPT ![t] = "load"]
            /\ UNCHANGED cause
    /\ UNCHANGED <<textures, textures_map, readers, poisoned, appended, loads, resolved,
                   region, col, y, index, raster>>

----------------------------------------------------------------------------
(* TextureLoader::load (loader.rs:117-157) as a function of the loader's   *)
(* fields: [panic, textures, textures_map, result, resolved, pushed].      *)

LoadResult(pn, texs, map, res, rs, pu) ==
    [panic |-> pn, textures |-> texs, textures_map |-> map, result |-> res,
     resolved |-> rs, pushed |-> pu]

\* A load that puts the new record in front of the others, under handle 0
LoadMiss_push_front(texs, map, name, properties, back) ==
    LET key == Key(name, properties)
        r   == Resolve(name, properties)
    IN  IF r.panic
        THEN LoadResult(TRUE, texs, map, None, TRUE, FALSE)
        ELSE IF r.push = None
        THEN LoadResult(FALSE, texs, (key :> None) @@ map, None, TRUE, FALSE)
        ELSE LoadResult(FALSE, <<Unwrap(r.push)>> \o texs, (key :> Some(0)) @@ map,
                        Some(0), TRUE, TRUE)

\* loader.rs:126-156; the handle stored is textures.len() - back (back is 1)
LoadMiss(texs, map, name, properties, back) ==
    LET key == Key(name, properties)
        r   == Resolve(name, properties)
    IN  IF r.panic
        THEN LoadResult(TRUE, texs, map, None, TRUE, FALSE)
        ELSE IF r.push = None
        THEN LoadResult(FALSE, texs, (key :> None) @@ map, None, TRUE, FALSE)
        ELSE LET pushed == Append(texs, Unwrap(r.push))
                 handle == Len(pushed) - back
             IN  LoadResult(FALSE, pushed, (key :> Some(handle)) @@ map,
                            Some(handle), TRUE, TRUE)

\* A load that resolves without looking at the map first
load_no_recheck(texs, map, name, properties) ==
    LoadMiss(texs, map, name, properties, 1)

\* A load that stores textures.len() as the handle
load_handle_is_len(texs, map, name, properties) ==
    LoadMiss(texs, map, name, properties, 0)

\* loader.rs:117-157
load(texs, map, name, properties) ==
    LET key == Key(name, properties)
    IN  IF key \in DOMAIN map
        THEN LoadResult(FALSE, texs, map, map[key], FALSE, FALSE)
        ELSE LoadMiss(texs, map, name, properties, 1)

\* renderer.rs:44-47: textures.load(candidate, properties) under the write
\* guard.  A panic inside load unwinds through the guard: the lock is
\* released and poisoned.
Load(t) ==
    /\ pc[t] = "load"
    /\ UNCHANGED decoderVars
    /\ LET key == Candidate(t)
           r   == load(textures, textures_map, key[1], key[2])
       IN  /\ textures' = r.textures
           /\ textures_map' = r.textures_map
           /\ loads' = [loads EXCEPT ![key] = @ + 1]
           /\ resolved' = [resolved EXCEPT ![key] = @ + (IF r.resolved THEN 1 ELSE 0)]
           /\ appended' = [appended EXCEPT ![key] = @ + (IF r.pushed THEN 1 ELSE 0)]
           /\ writer' = {}
           /\ IF r.panic
              THEN /\ poisoned' = TRUE
                   /\ PanicTask(t, "resolution")
                   /\ UNCHANGED <<index, y>>
              ELSE /\ poisoned' = poisoned
                   /\ index' = [index EXCEPT ![t] = r.result]
                   /\ IF r.result # None
                      THEN pc' = [pc EXCEPT ![t] = "getlock"] /\ y' = y
                      ELSE pc' = [pc EXCEPT ![t] = "scan"]
                           /\ y' = [y EXCEPT ![t] = @ + 1]
                   /\ UNCHANGED cause
    /\ UNCHANGED <<readers, region, col, raster>>

\* renderer.rs:50: textures.read().unwrap()
GetLock(t) ==
    /\ pc[t] = "getlock"
    /\ UNCHANGED decoderVars
    /\ writer = {}
    /\ IF poisoned
       THEN PanicTask(t, "poisoned") /\ UNCHANGED readers
       ELSE /\ readers' = readers \cup {t}
            /\ pc' = [pc EXCEPT ![t] = "get"]
            /\ UNCHANGED cause
    /\ UNCHANGED <<textures, textures_map, writer, poisoned, appended, loads, resolved,
                   region, col, y, index, raster>>

\* renderer.rs:51-52: get_texture(index), the pixel is the average colour
Get(t) ==
    /\ pc[t] = "get"
    /\ UNCHANGED decoderVars
    /\ IF Unwrap(index[t]) + 1 \in DOMAIN textures
       THEN /\ EmitPixel(t, TextureLoader_get_texture(textures, Unwrap(index[t])).avg)
            /\ UNCHANGED cause
       ELSE /\ PanicTask(t, "bounds")          \* index out of bounds
            /\ UNCHANGED <<raster, col, y>>
    /\ readers' = readers \ {t}
    /\ UNCHANGED <<textures, textures_map, writer, poisoned, appended, loads, resolved,
                   region, index>>

TaskStep(t) ==
    \/ Scan(t)
    \/ ReadLock(t)
    \/ Index(t)
    \/ WriteLock(t)
    \/ Load(t)
    \/ GetLock(t)
    \/ Get(t)

Next == \E t \in Tasks : TaskStep(t)

Spec == Init /\ [][Next]_vars

\* Every task that can take a step eventually takes one: the tasks run on
\* their own threads and the lock is granted whenever it is free.
FairSpec == Spec /\ \A t \in Tasks : WF_vars(TaskStep(t))

----------------------------------------------------------------------------
(* Claims about the appearance cache and the tasks that share it *)

\* C1: for every lookup key at most one texture record is ever appended,
\* whatever the interleaving of the tasks that index and then load it.
C1_AtMostOneRecordPerKey == \A k \in Keys : appended[k] <= 1

\* Two load calls were made for one key (a second task had missed it under
\* the shared lock before the first stored it) and it has its one record.
C1_Witness ==
    \E k \in Keys : loads[k] >= 2 /\ appended[k] = 1 /\ textures_map[k] # None

HandlesValid ==
    /\ \A k \in DOMAIN textures_map :
         \A h \in textures_map[k] : 0 <= h /\ h < Len(textures)
    /\ \A k1, k2 \in DOMAIN textures_map :
         (k1 # k2 /\ textures_map[k1] # None) => textures_map[k1] # textures_map[k2]
    /\ \A t \in Tasks : cause[t] # "bounds"

HandlesKept ==
    /\ Len(textures') >= Len(textures)
    /\ \A i \in 1..Len(textures) : textures'[i] = textures[i]
    /\ \A k \in DOMAIN textures_map :
         k \in DOMAIN textures_map' /\ textures_map'[k] = textures_map[k]

\* C2: handles are stable: every stored handle indexes a texture record,
\* distinct resolved keys hold distinct handles, get never misses, and no
\* step removes, moves or replaces a record or changes a lookup entry.
C2_HandlesStable == []HandlesValid /\ [][HandlesKept]_vars

\* Two keys hold handles and a task has read a record through one of them.
C2_Witness ==
    /\ Cardinality({k \in DOMAIN textures_map : textures_map[k] # None}) >= 2
    /\ \E t \in Tasks : \E i \in 1..Len(raster[t]) : raster[t][i] # Black

\* C3: negative caching: a load on a key not yet in the map returns
\* normally and leaves the key in the map (a handle or None); a load on a key
\* already in the map returns the stored value, resolves nothing and changes
\* nothing.
C3_NegativeCaching ==
    [][\A t \in Tasks :
         (pc[t] = "load" /\ pc'[t] # "load") =>
            /\ pc'[t] # "failed"
            /\ Candidate(t) \in DOMAIN textures_map'
            /\ index'[t] = textures_map'[Candidate(t)]
            /\ Candidate(t) \in DOMAIN textures_map =>
                  /\ textures' = textures
                  /\ textures_map' = textures_map
                  /\ resolved' = resolved]_vars

\* C4: a task ends with its raster or with a failure of its own region: a
\* task only ever fails on a block of its own that cannot be resolved, never
\* because another task failed while it held the exclusive lock.
C4_FailuresStayLocal ==
    \A t \in Tasks :
        pc[t] = "failed" =>
            /\ cause[t] = "resolution"
            /\ Resolve(Candidate(t)[1], Candidate(t)[2]).panic

\* Under fair scheduling every task reaches a final state.
AllTasksEnd == <>[](\A t \in Tasks : pc[t] \in {"done", "failed"})

----------------------------------------------------------------------------
(* The rasterizer tasks at rest, while a decoder runs *)

CacheIdle ==
    /\ textures = <<>>
    /\ textures_map = <<>>
    /\ readers = {}
    /\ writer = {}
    /\ poisoned = FALSE
    /\ region = [t \in Tasks |-> <<>>]
    /\ pc = [t \in Tasks |-> "done"]
    /\ col = [t \in Tasks |-> 1]
    /\ y = [t \in Tasks |-> 1]
    /\ index = [t \in Tasks |-> None]
    /\ raster = [t \in Tasks |-> <<>>]
    /\ cause = [t \in Tasks |-> "none"]
    /\ appended = [k \in Keys |-> 0]
    /\ loads = [k \in Keys |-> 0]
    /\ resolved = [k \in Keys |-> 0]

----------------------------------------------------------------------------
(* Palette normalisation: load_graphic_props builds the block's entry of   *)
(* the index from its blockstate file, then the palette loop of            *)
(* ChunkSection::new normalises one palette entry of that block.           *)

\* "facing=north,waterlogged=true"
V_facing_wl_true == <<102, 97, 99, 105, 110, 103, 61, 110, 111, 114, 116, 104, 44, 119, 97, 116, 101, 114, 108, 111, 103, 103, 101, 100, 61, 116, 114, 117, 101>>

\* "facing=north,waterlogged=false"
V_facing_wl_false == <<102, 97, 99, 105, 110, 103, 61, 110, 111, 114, 116, 104, 44, 119, 97, 116, 101, 114, 108, 111, 103, 103, 101, 100, 61, 102, 97, 108, 115, 101>>

\* "waterlogged=false"
V_wl_false == <<119, 97, 116, 101, 114, 108, 111, 103, 103, 101, 100, 61, 102, 97, 108, 115, 101>>

\* "axis=y"
V_axis_y == <<97, 120, 105, 115, 61, 121>>

\* "facing=north,type=single,waterlogged=true"
V_facing_type_wl == <<102, 97, 99, 105, 110, 103, 61, 110, 111, 114, 116, 104, 44, 116, 121, 112, 101, 61, 115, 105, 110, 103, 108, 101, 44, 119, 97, 116, 101, 114, 108, 111, 103, 103, 101, 100, 61, 116, 114, 117, 101>>

\* "type=single"
V_type == <<116, 121, 112, 101, 61, 115, 105, 110, 103, 108, 101>>

\* "facing=north,facing=north"
V_facing_facing == <<102, 97, 99, 105, 110, 103, 61, 110, 111, 114, 116, 104, 44, 102, 97, 99, 105, 110, 103, 61, 110, 111, 114, 116, 104>>

\* The "variants" keys of the blockstate files tried
VariantSets ==
    { {<<>>},
      {V_axis_y},
      {V_facing_wl_true, V_facing_wl_false},
      {V_facing_wl_true, V_wl_false},
      {V_facing_type_wl, V_type},
      {V_facing_facing} }

StringTag(str) == Tag(8, str)

\* A palette entry {Name: name} or {Name: name, Properties: props}
Block(name, props) ==
    Tag(10, IF props = None THEN (S_Name :> StringTag(name))
            ELSE (S_Name :> StringTag(name)) @@ (S_Properties :> Tag(10, Unwrap(props))))

P_facing == (S_facing :> StringTag(S_north))

P_waterlogged == (S_waterlogged :> StringTag(S_true))

P_type == (S_type :> StringTag(S_single))

P_axis == (S_axis :> StringTag(S_y))

\* The palette entries tried, all of block minecraft:chest but the last
PaletteBlocks ==
    << Block(S_chest, None),
       Block(S_chest, Some(<<>>)),
       Block(S_chest, Some(P_axis)),
       Block(S_chest, Some(P_facing @@ P_waterlogged)),
       Block(S_chest, Some(P_facing @@ P_waterlogged @@ P_type)),
       Block(S_chest, Some(P_facing @@ (S_waterlogged :> Tag(1, 1)))),
       Block(S_piston, Some(P_facing)) >>

InitPalette ==
    /\ CacheIdle /\ UnpackIdle /\ ChunkIdle /\ RegionIdle /\ NbtIdle /\ ImageIdle
    /\ pl_variants \in VariantSets
    /\ \E i \in DOMAIN PaletteBlocks : pl_block = PaletteBlocks[i]
    /\ pl_graphics = None
    /\ pl_order = <<>>
    /\ pl_out = None

\* loader.rs:194-215 for resources/blockstates/chest.json; the keys of the
\* "variants" map are iterated in some order
BuildIndex ==
    /\ pl_graphics = None
    /\ \E order \in Orders(pl_variants) :
          pl_graphics' = Some(used_variants(order))
    /\ UNCHANGED <<pl_variants, pl_block, pl_order, pl_out>>
    /\ UNCHANGED <<renderVars, unpackVars, chunkVars, regionVars, nbtVars, imageVars>>

\* The graphic-property index handed to the decoder (loader.rs:215)
GraphicSetOf(graphics) == (S_chest :> graphics)

\* map.rs:125-173 for the palette entry; its Properties are iterated in
\* some order
Normalise ==
    /\ pl_graphics # None
    /\ pl_out = None
    /\ \E order \in Orders(PropertyKeys(pl_block)) :
          /\ pl_order' = order
          /\ pl_out' = Some(PaletteEntry(pl_block, GraphicSetOf(Unwrap(pl_graphics)), order))
    /\ UNCHANGED <<pl_variants, pl_block, pl_graphics>>
    /\ UNCHANGED <<renderVars, unpackVars, chunkVars, regionVars, nbtVars, imageVars>>

NextPalette == BuildIndex \/ Normalise

SpecPalette == InitPalette /\ [][NextPalette]_vars

----------------------------------------------------------------------------
(* Claims about palette normalisation *)

RECURSIVE JoinComma(_)
\* The ","-join of a sequence of strings
JoinComma(strs) ==
    IF strs = <<>> THEN <<>>
    ELSE IF Len(strs) = 1 THEN strs[1]
    ELSE strs[1] \o <<Comma>> \o JoinComma(Tail(strs))

\* The Properties compound of the palette entry, empty when it has none
PropertiesOf(block_tag) ==
    LET block == Unwrap(As(block_tag, 10))
    IN  IF S_Properties \in DOMAIN block THEN Unwrap(As(block[S_Properties], 10)) ELSE <<>>

AllValuesStrings(block_tag) ==
    \A k \in PropertyKeys(block_tag) : As(PropertiesOf(block_tag)[k], 8) # None

ValueOf(block_tag, k) == Unwrap(As(PropertiesOf(block_tag)[k], 8))

NameOf(block_tag) == Unwrap(As(Unwrap(As(block_tag, 10))[S_Name], 8))

\* C8: the stored properties string is the ","-join of "key=value" over the
\* Properties entries in iteration order, no trailing comma, every value
\* whole; the empty string without Properties.
C8_PropertiesJoined ==
    (pl_out # None /\ Unwrap(pl_out).st = "ok") =>
        Unwrap(pl_out).prop_list =
            JoinComma([i \in 1..Len(pl_order) |->
                          KeyValue(pl_order[i], ValueOf(pl_block, pl_order[i]))])

\* Every key has a slot of its own among 0 .. number of keys - 1
IsCanonical(graphics) ==
    {graphics[k] : k \in DOMAIN graphics} = 0..(Cardinality(DOMAIN graphics) - 1)

\* Each "key=value" at the key's canonical slot, the other slots empty
CanonicalGraphic(block_tag, graphics) ==
    JoinComma([i \in 1..Cardinality(DOMAIN graphics) |->
        LET ks == {k \in PropertyKeys(block_tag) \cap DOMAIN graphics : graphics[k] = i - 1}
        IN  IF ks = {} THEN <<>>
            ELSE KeyValue(CHOOSE k \in ks : TRUE, ValueOf(block_tag, CHOOSE k \in ks : TRUE))])

\* C9: with a canonical key ordering the graphic_properties string does not
\* depend on the order in which the Properties are iterated: every order
\* gives each "key=value" at its canonical slot; [facing, waterlogged] with
\* {waterlogged: true, facing: north} gives "facing=north,waterlogged=true".
C9_OrderIndependent ==
    (/\ pl_out # None
     /\ NameOf(pl_block) = S_chest
     /\ AllValuesStrings(pl_block)
     /\ IsCanonical(Unwrap(pl_graphics))) =>
        LET graphics == Unwrap(pl_graphics)
            out      == Unwrap(pl_out)
        IN  /\ out.st = "ok"
            /\ out.graphic_list = CanonicalGraphic(pl_block, graphics)
            /\ \A o \in Orders(PropertyKeys(pl_block)) :
                  PaletteEntry(pl_block, GraphicSetOf(graphics), o).graphic_list
                      = out.graphic_list
            /\ (/\ graphics = (S_facing :> 0) @@ (S_waterlogged :> 1)
                /\ PropertyKeys(pl_block) = {S_facing, S_waterlogged})
                  => out.graphic_list = V_facing_wl_true

\* {waterlogged: true, facing: north}, iterated waterlogged first, under the
\* ordering [facing, waterlogged], came out as "facing=north,waterlogged=true".
C9_Witness ==
    /\ pl_out # None
    /\ pl_graphics = Some((S_facing :> 0) @@ (S_waterlogged :> 1))
    /\ pl_order = <<S_waterlogged, S_facing>>
    /\ Unwrap(pl_out).st = "ok"
    /\ Unwrap(pl_out).graphic_list = V_facing_wl_true

\* C10: for every index the builder produces, either every graphic key of
\* the palette entry has a slot of its own inside the slot array, or the
\* decoding of the entry is rejected.
C10_SlotsValidOrRejected ==
    pl_out # None =>
        \/ Unwrap(pl_out).st = "panic"
        \/ LET graphics == Unwrap(pl_graphics)
               ks       == PropertyKeys(pl_block) \cap DOMAIN graphics
           IN  /\ \A k \in ks : graphics[k] < Cardinality(DOMAIN graphics)
               /\ \A k1, k2 \in ks : k1 # k2 => graphics[k1] # graphics[k2]

----------------------------------------------------------------------------
(* The bit unpacker on packed index arrays *)

\* Largest palette size packed
MaxPalette == 17

\* Largest stride of the index patterns packed
MaxStride == 3

\* The indices packed: a at stride, b at start, below n
Pattern(n, a, b) == [i \in 1..SectionBlocks |-> (a * (i - 1) + b) % n]

\* The least k with n <= 2^k
CeilLog2(n) == CHOOSE k \in 0..30 : n <= Pow2(k) /\ (k = 0 \/ Pow2(k - 1) < n)

\* Bits per entry a writer uses for a palette of n entries
Width(n) == IF CeilLog2(n) > MinBlockBits THEN CeilLog2(n) ELSE MinBlockBits

\* Bit k (from 0) of the packed stream: entries follow each other least
\* significant bit first, w bits each
StreamBit(indices, w, k) == (indices[(k \div w) + 1] \div Pow2(k % w)) % 2

\* The stream cut into 64-bit longs, bit j of long l being stream bit
\* 64 l + j; a long is kept as its 8 bytes, most significant first
PackLongs(indices, w) ==
    [l \in 1..((Len(indices) * w) \div 64) |->
        [p \in 1..8 |->
            LET base == 64 * (l - 1) + 8 * (8 - p)
            IN    StreamBit(indices, w, base)
                + 2 * StreamBit(indices, w, base + 1)
                + 4 * StreamBit(indices, w, base + 2)
                + 8 * StreamBit(indices, w, base + 3)
                + 16 * StreamBit(indices, w, base + 4)
                + 32 * StreamBit(indices, w, base + 5)
                + 64 * StreamBit(indices, w, base + 6)
                + 128 * StreamBit(indices, w, base + 7)]]

InitUnpack ==
    /\ CacheIdle /\ PaletteIdle /\ ChunkIdle /\ RegionIdle /\ NbtIdle /\ ImageIdle
    /\ up_n \in 1..MaxPalette
    /\ \E a \in 0..MaxStride, b \in {0, up_n - 1} : up_indices = Pattern(up_n, a, b)
    /\ up_longs = <<>>
    /\ up_out = None

\* A writer packs the section's indices into BlockStates
Pack ==
    /\ up_longs = <<>>
    /\ up_longs' = PackLongs(up_indices, Width(up_n))
    /\ UNCHANGED <<up_n, up_indices, up_out>>
    /\ UNCHANGED <<renderVars, paletteVars, chunkVars, regionVars, nbtVars, imageVars>>

\* map.rs:178-199 on the packed array
Unpack ==
    /\ up_longs # <<>>
    /\ up_out = None
    /\ up_out' = Some(UnpackIndexes(StatesBytes(up_longs)))
    /\ UNCHANGED <<up_n, up_indices, up_longs>>
    /\ UNCHANGED <<renderVars, paletteVars, chunkVars, regionVars, nbtVars, imageVars>>

NextUnpack == Pack \/ Unpack

SpecUnpack == InitUnpack /\ [][NextUnpack]_vars

----------------------------------------------------------------------------
(* Chunk::new on Level compounds, and the lookups in the Chunk it builds *)

\* Most sections in a Level compound
MaxSections == 2

\* The graphic-property index the chunks are decoded with
\* (loader.rs:194-215 for stone.json, of the one variant "", and chest.json)
ChunkGraphicSet ==
    (S_stone :> used_variants(<< <<>> >>)) @@ (S_chest :> used_variants(<<V_facing_wl_true>>))

\* A section compound {Palette: blocks, BlockStates: longs, Y: yy}
Section(blocks, longs, yy) ==
    Tag(10, (S_Palette :> Tag(9, blocks)) @@ (S_BlockStates :> Tag(12, longs))
            @@ (S_Y :> Tag(1, yy)))

B_stone == Block(S_stone, None)

B_chest == Block(S_chest, Some(P_facing @@ P_waterlogged))

\* The sections the Level compounds are made of, each at most once and in
\* this order
SectionInputs ==
    << Tag(10, (S_Y :> Tag(1, 0))),                                         \* no Palette
       Section(<<B_stone>>, PackLongs(Pattern(1, 0, 0), 4), 0),
       Section(<<B_stone, B_chest>>, PackLongs(Pattern(2, 1, 0), 4), 1),
       Section(<<B_stone, B_chest>>, PackLongs(Pattern(2, 0, 0), 4), 0),   \* last entry unused
       Section(<<B_stone>>, PackLongs(Pattern(2, 1, 0), 4), 0),            \* index 1 of 1 entry
       Section(<<>>, PackLongs(Pattern(1, 0, 0), 4), 0),                   \* empty Palette
       Section(<<B_stone>>, PackLongs(Pattern(1, 0, 0), 4), -1),
       Section(<<B_stone>>, PackLongs(Pattern(1, 0, 0), 4), ChunkSections),
       Section(<<B_stone>>, <<[p \in 1..8 |-> 0]>>, 0) >>                   \* BlockStates too short

\* The Sections list of a Level compound, <<>> when it has none
SectionsOf(chunk_nbt) ==
    IF S_Sections \in DOMAIN chunk_nbt THEN Unwrap(As(chunk_nbt[S_Sections], 9)) ELSE <<>>

\* x and z of the lookups made
LookupCoords == {0, CHUNK_SIZE - 1}

\* Heights of the lookups made
LookupHeights == {0, 2 * SECTION_SIZE - 1, ChunkSections * SECTION_SIZE - 1}

InitChunk ==
    /\ CacheIdle /\ PaletteIdle /\ UnpackIdle /\ RegionIdle /\ NbtIdle /\ ImageIdle
    /\ \/ \E k \in 0..MaxSections : \E pick \in [1..k -> DOMAIN SectionInputs] :
            /\ \A p, q \in 1..k : p < q => pick[p] < pick[q]
            /\ ch_nbt = (S_Sections :> Tag(9, [p \in 1..k |-> SectionInputs[pick[p]]]))
       \/ ch_nbt = (S_Y :> Tag(1, 0))                                       \* no Sections
    /\ ch_out = None
    /\ ch_block = None

\* map.rs:248-267; the Properties of each palette entry are iterated in
\* some order
DecodeChunk ==
    /\ ch_out = None
    /\ \E orders \in SectionsOrders(SectionsOf(ch_nbt)) :
          ch_out' = Some(Chunk_new(ch_nbt, ChunkGraphicSet, orders))
    /\ UNCHANGED <<ch_nbt, ch_block>>
    /\ UNCHANGED <<renderVars, paletteVars, unpackVars, regionVars, nbtVars, imageVars>>

\* map.rs:268-294: get_block, get_prop and get_gprop at one position
GetBlock ==
    /\ ch_out # None
    /\ ch_block = None
    /\ Unwrap(ch_out).st = "ok"
    /\ \E x \in LookupCoords, yy \in LookupHeights, z \in LookupCoords :
          ch_block' = Some([x |-> x, y |-> yy, z |-> z,
                            block |-> Chunk_get_block(Unwrap(ch_out).sections, x, yy, z),
                            prop  |-> Chunk_get_prop(Unwrap(ch_out).sections, x, yy, z),
                            gprop |-> Chunk_get_gprop(Unwrap(ch_out).sections, x, yy, z)])
    /\ UNCHANGED <<ch_nbt, ch_out>>
    /\ UNCHANGED <<renderVars, paletteVars, unpackVars, regionVars, nbtVars, imageVars>>

NextChunk == DecodeChunk \/ GetBlock

SpecChunk == InitChunk /\ [][NextChunk]_vars

\* Does the section's BlockStates unpack to an index its Palette lacks?
BreaksPalette(section_tag) ==
    LET section == Unwrap(As(section_tag, 10))
    IN  /\ S_Palette \in DOMAIN section
        /\ S_BlockStates \in DOMAIN section
        /\ LET u == UnpackIndexes(StatesBytes(Unwrap(As(section[S_BlockStates], 12))))
           IN  /\ u.st = "ok"
               /\ \E i \in DOMAIN u.indexes :
                     u.indexes[i] >= Len(Unwrap(As(section[S_Palette], 9)))

\* Every stored section keeps its 4096 indices below its palette length,
\* and the lookup made, if any, found its entry
StoredInsidePalette ==
    ch_out # None =>
        LET out == Unwrap(ch_out)
        IN  /\ out.st = "ok" =>
                 \A s \in DOMAIN out.sections :
                    out.sections[s] # None =>
                       LET sec == Unwrap(out.sections[s])
                       IN  /\ \A i \in DOMAIN sec.indexes : sec.indexes[i] < Len(sec.names)
                           /\ Len(sec.properties) = Len(sec.names)
                           /\ Len(sec.graphic_props) = Len(sec.names)
                           /\ \A x, yy, z \in 0..(CHUNK_SIZE - 1) :
                                 get_index(x, yy, z) < Len(sec.indexes)
            /\ ch_block # None =>
                  /\ Unwrap(ch_block).block.st = "ok"
                  /\ Unwrap(ch_block).prop.st = "ok"
                  /\ Unwrap(ch_block).gprop.st = "ok"

\* Decoding a Level with a section that breaks its palette ends in a panic
BreakingRejected ==
    (/\ ch_out = None
     /\ ch_out' # None
     /\ \E p \in DOMAIN SectionsOf(ch_nbt) : BreaksPalette(SectionsOf(ch_nbt)[p]))
        => Unwrap(ch_out').st = "panic"

\* C6: in every section a Chunk stores all 4096 indices are below the
\* palette length, so get_block, get_prop and get_gprop at any (x, y, z) in
\* [0,16)^3 stay inside the palette; a section whose unpacked indices are
\* not is a decode error and nothing of it is stored.
C6_IndicesInsidePalette == []StoredInsidePalette /\ [][BreakingRejected]_vars

\* A stored section of two palette entries, both in use, and a lookup in it
\* that gave the chest
C6_Witness ==
    /\ ch_out # None
    /\ Unwrap(ch_out).st = "ok"
    /\ Unwrap(ch_out).sections[2] # None
    /\ Len(Unwrap(Unwrap(ch_out).sections[2]).names) = 2
    /\ ch_block # None
    /\ Unwrap(ch_block).block.v = S_chest
    /\ Unwrap(ch_block).gprop.v = V_facing_wl_true

----------------------------------------------------------------------------
(* map.rs: RegionFile (map.rs:23-83) and Region (map.rs:297-381)           *)
(* A region file is [header, sectors]: the 4096 header bytes, and for the  *)
(* sector offsets a chunk starts at, [compression, complete, inflates,     *)
(* data]: the compression byte, whether the file holds all the sectors the *)
(* header announces, whether the compressed stream decodes, and the bytes  *)
(* it decodes to.                                                          *)

\* map.rs:21
REGION_SIZE == 32

\* read_u24::<BigEndian>
U24(bytes, pos) == bytes[pos] * 65536 + bytes[pos + 1] * 256 + bytes[pos + 2]

\* map.rs:35-50: the (offset, size) of every slot; Err when the file is
\* shorter than the header.  [st, chunks]
RegionFile_read_header(file) ==
    IF Len(file.header) < 4 * REGION_SIZE * REGION_SIZE THEN [st |-> "err", chunks |-> <<>>]
    ELSE [st |-> "ok",
          chunks |-> [i \in 1..(REGION_SIZE * REGION_SIZE) |->
                         <<U24(file.header, 4 * (i - 1) + 1), file.header[4 * i]>>]]

\* map.rs:53-83.  [st, bytes]
RegionFile_read_chunk(file, offset, size) ==
    IF offset \notin DOMAIN file.sectors THEN [st |-> "err", bytes |-> <<>>]   \* read past the end
    ELSE LET sector == file.sectors[offset]
         IN  IF ~sector.complete THEN [st |-> "err", bytes |-> <<>>]           \* read_exact
             ELSE IF sector.compression \notin {1, 2}
             THEN [st |-> "panic", bytes |-> <<>>]         \* "Unknown nbt compression type"
             ELSE IF ~sector.inflates THEN [st |-> "err", bytes |-> <<>>]      \* read_to_end
             ELSE [st |-> "ok", bytes |-> sector.data]

\* The iteration orders of the Properties in a Level's palettes; the Levels
\* of the region files have palette entries without Properties, iterated in
\* the one order there is
LevelOrders(level) == CHOOSE o \in SectionsOrders(SectionsOf(level)) : TRUE

\* What one turn of `for &(offset, size) in &chunks_nbt` (map.rs:321-342)
\* comes to, [st, chunk]: "ok" with the Option pushed, "err" for the `?`
\* that returns from from_file, "panic"
SlotNone == [st |-> "ok", chunk |-> None]

SlotErr == [st |-> "err", chunk |-> None]

SlotPanic == [st |-> "panic", chunk |-> None]

\* map.rs:335-336
ChunkOfLevel(chunk) ==
    IF chunk.st # "ok" THEN SlotPanic ELSE [st |-> "ok", chunk |-> Some(chunk.sections)]

\* map.rs:330-335: ["Level"] of the root compound
ChunkOfRoot(root, graphic_set) ==
    IF S_Level \notin DOMAIN root THEN SlotPanic
    ELSE IF As(root[S_Level], 10) = None THEN SlotPanic
    ELSE ChunkOfLevel(Chunk_new(Unwrap(As(root[S_Level], 10)), graphic_set,
                                LevelOrders(Unwrap(As(root[S_Level], 10)))))

\* map.rs:327-331: tags[""] of the parsed compound
ChunkOfTags(tags, graphic_set) ==
    IF <<>> \notin DOMAIN tags THEN SlotPanic
    ELSE IF As(tags[<<>>], 10) = None THEN SlotPanic
    ELSE ChunkOfRoot(Unwrap(As(tags[<<>>], 10)), graphic_set)

\* map.rs:326: parser.read_compound()?
ChunkOfParsed(parsed, graphic_set) ==
    IF parsed.st = "err" THEN SlotErr
    ELSE IF parsed.st = "panic" THEN SlotPanic
    ELSE ChunkOfTags(Unwrap(As(parsed.tag, 10)), graphic_set)

\* map.rs:323-339: `if let Ok(chunk) = region_nbt.read_chunk(offset, size)`
ChunkOfRead(rc, graphic_set) ==
    IF rc.st = "err" THEN SlotNone                          \* "Chunk error"
    ELSE IF rc.st = "panic" THEN SlotPanic
    ELSE ChunkOfParsed(read_compound(rc.bytes, 1), graphic_set)

\* map.rs:321-342: one turn of the loop
ChunkOfSlot(file, graphic_set, offset, size) ==
    IF offset = 0 \/ size = 0 THEN SlotNone
    ELSE ChunkOfRead(RegionFile_read_chunk(file, offset, size), graphic_set)

\* map.rs:320-345: the loop stops at the first turn that returns or panics
RegionOfSlots(slots) ==
    IF \E i \in DOMAIN slots : slots[i].st # "ok"
    THEN [st |-> slots[CHOOSE i \in DOMAIN slots :
                          /\ slots[i].st # "ok"
                          /\ \A j \in 1..(i - 1) : slots[j].st = "ok"].st,
          chunks |-> <<>>]
    ELSE [st |-> "ok", chunks |-> [i \in DOMAIN slots |-> slots[i].chunk]]

\* map.rs:317-345 on the header read
RegionOfHeader(file, graphic_set, header) ==
    IF header.st # "ok" THEN [st |-> "err", chunks |-> <<>>]
    ELSE RegionOfSlots([i \in DOMAIN header.chunks |->
                           ChunkOfSlot(file, graphic_set,
                                       header.chunks[i][1], header.chunks[i][2])])

\* map.rs:313-348.  [st, chunks]
Region_from_file(file, graphic_set) ==
    RegionOfHeader(file, graphic_set, RegionFile_read_header(file))

\* The slot index with x and z taking each other's place
Region_get_index_transposed(x, z) == (x \div CHUNK_SIZE) * REGION_SIZE + (z \div CHUNK_SIZE)

\* map.rs:350-352
Region_get_index(x, z) == (z \div CHUNK_SIZE) * REGION_SIZE + (x \div CHUNK_SIZE)

\* map.rs:354-361
Region_get_block(chunks, x, yy, z) ==
    LET i == Region_get_index(x, z)
    IN  IF i + 1 \notin DOMAIN chunks THEN [st |-> "panic", v |-> <<>>]
        ELSE IF chunks[i + 1] # None
        THEN Chunk_get_block(Unwrap(chunks[i + 1]), x % CHUNK_SIZE, yy, z % CHUNK_SIZE)
        ELSE [st |-> "ok", v |-> EMPTY_BLOCK]

\* map.rs:364-371
Region_get_prop(chunks, x, yy, z) ==
    LET i == Region_get_index(x, z)
    IN  IF i + 1 \notin DOMAIN chunks THEN [st |-> "panic", v |-> <<>>]
        ELSE IF chunks[i + 1] # None
        THEN Chunk_get_prop(Unwrap(chunks[i + 1]), x % CHUNK_SIZE, yy, z % CHUNK_SIZE)
        ELSE [st |-> "ok", v |-> <<>>]

\* map.rs:373-380
Region_get_gprop(chunks, x, yy, z) ==
    LET i == Region_get_index(x, z)
    IN  IF i + 1 \notin DOMAIN chunks THEN [st |-> "panic", v |-> <<>>]
        ELSE IF chunks[i + 1] # None
        THEN Chunk_get_gprop(Unwrap(chunks[i + 1]), x % CHUNK_SIZE, yy, z % CHUNK_SIZE)
        ELSE [st |-> "ok", v |-> <<>>]

\* map.rs:303-305
Region_new(chunks) == chunks

\* map.rs:306-310
Region_new_empty == [i \in 1..(REGION_SIZE * REGION_SIZE) |-> None]

----------------------------------------------------------------------------
(* Region::from_file on region files *)

\* A length or a count as 2 and as 4 big-endian bytes
U16Bytes(n) == <<n \div 256, n % 256>>

I32Bytes(n) == <<0, 0, n \div 256, n % 256>>

\* A named tag as the writer lays it out: id, name, payload
Named(id, name, payload) == <<id>> \o U16Bytes(Len(name)) \o name \o payload

\* A chunk {"": {Level: {Sections: [sections]}}} of count sections
ChunkBytes(count, sections) ==
    Named(10, <<>>,
          Named(10, S_Level,
                Named(9, S_Sections, <<10>> \o I32Bytes(count) \o sections) \o <<0>>)
          \o <<0>>)

\* The section {Palette: [{Name: stone}], BlockStates: 256 longs of 0, Y: 0}
StoneSectionBytes ==
    Named(9, S_Palette,
          <<10>> \o I32Bytes(1) \o Named(8, S_Name, U16Bytes(Len(S_stone)) \o S_stone) \o <<0>>)
    \o Named(12, S_BlockStates, I32Bytes(64 * MinBlockBits) \o [i \in 1..(512 * MinBlockBits) |-> 0])
    \o Named(1, S_Y, <<0>>)
    \o <<0>>

\* A chunk without sections
EmptyChunkBytes == ChunkBytes(0, <<>>)

\* A chunk with one section of stone
StoneChunkBytes == ChunkBytes(1, StoneSectionBytes)

Sector(compression, complete, inflates, data) ==
    [compression |-> compression, complete |-> complete, inflates |-> inflates, data |-> data]

\* What the sector of a slot may hold: good chunks, a corrupt stream, a file
\* that ends early, an unknown compression, and chunks whose NBT stops short
SectorInputs ==
    << Sector(2, TRUE, TRUE, EmptyChunkBytes),
       Sector(1, TRUE, TRUE, StoneChunkBytes),
       Sector(2, TRUE, FALSE, <<>>),
       Sector(2, FALSE, TRUE, EmptyChunkBytes),
       Sector(3, TRUE, TRUE, EmptyChunkBytes) >>
    \o [n \in 1..Len(EmptyChunkBytes) |->
           Sector(2, TRUE, TRUE, SubSeq(EmptyChunkBytes, 1, n - 1))]

\* The sectors that hold a good chunk or a corrupt stream
PlainSectorInputs == {1, 2, 3}

\* The header slots the files use: the first and the last
RegionSlots == {1, REGION_SIZE * REGION_SIZE}

\* The header with (offset, size) at the slots of entries, 0 elsewhere
HeaderBytes(entries) ==
    [k \in 1..(4 * REGION_SIZE * REGION_SIZE) |->
        LET slot == ((k - 1) \div 4) + 1
        IN  IF slot \notin DOMAIN entries THEN 0
            ELSE IF k % 4 = 0 THEN entries[slot][2]
            ELSE IF k % 4 = 3 THEN entries[slot][1]
            ELSE 0]

InitRegion ==
    /\ CacheIdle /\ PaletteIdle /\ UnpackIdle /\ ChunkIdle /\ NbtIdle /\ ImageIdle
    /\ \E a \in RegionSlots, b \in RegionSlots, size \in {0, 1} :
       \E i \in DOMAIN SectorInputs, j \in PlainSectorInputs :
          /\ a # b
          /\ rg_file = [header  |-> HeaderBytes((a :> <<2, size>>) @@ (b :> <<3, 1>>)),
                        sectors |-> (2 :> SectorInputs[i]) @@ (3 :> SectorInputs[j])]
    /\ rg_out = None
    /\ rg_block = None

\* map.rs:313-348
FromFile ==
    /\ rg_out = None
    /\ rg_out' = Some(Region_from_file(rg_file, ChunkGraphicSet))
    /\ UNCHANGED <<rg_file, rg_block>>
    /\ UNCHANGED <<renderVars, paletteVars, unpackVars, chunkVars, nbtVars, imageVars>>

\* map.rs:354-361 at the corner of a slot's chunk
RegionGetBlock ==
    /\ rg_out # None
    /\ Unwrap(rg_out).st = "ok"
    /\ rg_block = None
    /\ \E slot \in RegionSlots :
          LET x == ((slot - 1) % REGION_SIZE) * CHUNK_SIZE
              z == ((slot - 1) \div REGION_SIZE) * CHUNK_SIZE
          IN  rg_block' = Some([x |-> x, z |-> z,
                                block |-> Region_get_block(Unwrap(rg_out).chunks, x, 0, z)])
    /\ UNCHANGED <<rg_file, rg_out>>
    /\ UNCHANGED <<renderVars, paletteVars, unpackVars, chunkVars, nbtVars, imageVars>>

NextRegion == FromFile \/ RegionGetBlock

SpecRegion == InitRegion /\ [][NextRegion]_vars

\* The file with the header slot emptied
FileWithout(file, slot) ==
    [file EXCEPT !.header = [k \in DOMAIN file.header |->
                                IF ((k - 1) \div 4) + 1 = slot THEN 0 ELSE file.header[k]]]

\* Does the chunk of the slot fail to decompress, or its NBT fail to parse?
ChunkFails(file, slot) ==
    LET entry == RegionFile_read_header(file).chunks[slot]
    IN  /\ entry[1] # 0 /\ entry[2] # 0
        /\ LET rc == RegionFile_read_chunk(file, entry[1], entry[2])
           IN  \/ rc.st = "err"
               \/ rc.st = "ok" /\ read_compound(rc.bytes, 1).st = "err"

\* C5: when the chunk of one slot fails to decompress or to parse, and the
\* file without it loads, from_file returns a Region of 1024 slots with
\* None at the failing slot and every other slot as in the file without it.
C5_FailureStaysInSlot ==
    rg_out # None =>
        \A s \in RegionSlots :
           LET without == Region_from_file(FileWithout(rg_file, s), ChunkGraphicSet)
           IN  (ChunkFails(rg_file, s) /\ without.st = "ok") =>
                  /\ Unwrap(rg_out).st = "ok"
                  /\ Len(Unwrap(rg_out).chunks) = REGION_SIZE * REGION_SIZE
                  /\ Unwrap(rg_out).chunks[s] = None
                  /\ \A t \in DOMAIN without.chunks :
                        t # s => Unwrap(rg_out).chunks[t] = without.chunks[t]

----------------------------------------------------------------------------
(* Lookups in a Region: get_block, get_prop and get_gprop *)

\* The slots a Region has a chunk at: the first, its neighbours in x and in
\* z, and the last
LookupSlots == {1, 2, REGION_SIZE + 1, REGION_SIZE * REGION_SIZE}

\* The Level the chunk is built from: stone at Y = 0, stone and chest
\* alternating along x at Y = 1
LookupLevel == (S_Sections :> Tag(9, <<SectionInputs[2], SectionInputs[3]>>))

\* x and z of the lookups: the corners of the first chunk's columns, of its
\* neighbours, and the last column of the region
LookupXZ == {0, 1, CHUNK_SIZE, CHUNK_SIZE + 1, REGION_SIZE * CHUNK_SIZE - 1}

\* y of the lookups: both ends of the two lowest sections and the top
LookupY == {0, SECTION_SIZE - 1, SECTION_SIZE, 2 * SECTION_SIZE - 1,
            ChunkSections * SECTION_SIZE - 1}

\* Region::new_empty, or Region::new on 1024 slots with one chunk
InitLookup ==
    /\ CacheIdle /\ PaletteIdle /\ UnpackIdle /\ ChunkIdle /\ NbtIdle /\ ImageIdle
    /\ rg_file = <<>>
    /\ \/ rg_out = Some([st |-> "ok", chunks |-> Region_new_empty])
       \/ \E s \in LookupSlots :
          \E orders \in SectionsOrders(SectionsOf(LookupLevel)) :
             rg_out = Some([st |-> "ok",
                            chunks |-> Region_new(
                               [i \in 1..(REGION_SIZE * REGION_SIZE) |->
                                   IF i = s
                                   THEN Some(Chunk_new(LookupLevel, ChunkGraphicSet,
                                                       orders).sections)
                                   ELSE None])])
    /\ rg_block = None

\* map.rs:354-380: get_block, get_prop and get_gprop at one position
RegionLookup ==
    /\ rg_out # None
    /\ rg_block = None
    /\ \E x \in LookupXZ, yy \in LookupY, z \in LookupXZ :
          rg_block' = Some([x |-> x, y |-> yy, z |-> z,
                            block |-> Region_get_block(Unwrap(rg_out).chunks, x, yy, z),
                            prop  |-> Region_get_prop(Unwrap(rg_out).chunks, x, yy, z),
                            gprop |-> Region_get_gprop(Unwrap(rg_out).chunks, x, yy, z)])
    /\ UNCHANGED <<rg_file, rg_out>>
    /\ UNCHANGED <<renderVars, paletteVars, unpackVars, chunkVars, nbtVars, imageVars>>

NextLookup == RegionLookup

SpecLookup == InitLookup /\ [][NextLookup]_vars

\* What the lookup is to give: list is names, properties or graphic_props,
\* absent what an absent chunk or section gives
Expected(chunks, list, absent, x, yy, z) ==
    LET chunk == chunks[(z \div 16) * 32 + (x \div 16) + 1]
    IN  IF chunk = None THEN absent
        ELSE LET section == Unwrap(chunk)[(yy \div 16) + 1]
             IN  IF section = None THEN absent
                 ELSE LET sec == Unwrap(section)
                      IN  sec[list][sec.indexes[(yy % 16) * 256 + (z % 16) * 16 + (x % 16) + 1] + 1]

\* C11: a lookup at x, z in [0,512) and y in [0,256) consults the chunk at
\* slot (z/16)*32 + x/16 and its section y/16 at (x%16, y%16, z%16); an
\* absent chunk or section gives "minecraft:air" and empty strings; no
\* lookup indexes out of bounds.
C11_LookupsTotal ==
    rg_block # None =>
        LET r      == Unwrap(rg_block)
            chunks == Unwrap(rg_out).chunks
        IN  /\ r.block.st = "ok" /\ r.prop.st = "ok" /\ r.gprop.st = "ok"
            /\ r.block.v = Expected(chunks, "names", EMPTY_BLOCK, r.x, r.y, r.z)
            /\ r.prop.v = Expected(chunks, "properties", <<>>, r.x, r.y, r.z)
            /\ r.gprop.v = Expected(chunks, "graphic_props", <<>>, r.x, r.y, r.z)

\* The chunk is the x-neighbour of the first, and the lookup found the chest
\* of its section 1 at x = 17
C11_Witness ==
    /\ rg_block # None
    /\ Unwrap(rg_out).chunks[2] # None
    /\ Unwrap(rg_block).x = CHUNK_SIZE + 1 /\ Unwrap(rg_block).z = 0
    /\ Unwrap(rg_block).y = SECTION_SIZE
    /\ Unwrap(rg_block).block.v = S_chest
    /\ Unwrap(rg_block).gprop.v = V_facing_wl_true

----------------------------------------------------------------------------
(* Claims about the rasters of image_chunk *)

\* Does the block show: not ignored, and its key resolves to a texture?
Shows(key) ==
    /\ key[1] \notin ignore
    /\ ~Resolve(key[1], key[2]).panic
    /\ Resolve(key[1], key[2]).push # None

\* The pixel of a column, given top first: the average colour of its first
\* block that shows, black when none does
ColumnPixel(column) ==
    IF \E i \in DOMAIN column : Shows(column[i])
    THEN LET i   == CHOOSE j \in DOMAIN column :
                        Shows(column[j]) /\ \A k \in 1..(j - 1) : ~Shows(column[k])
             key == column[i]
         IN  Unwrap(Resolve(key[1], key[2]).push).avg
    ELSE Black

\* C12: in pixel mode the pixel of every column is the average colour of
\* the highest block that is not ignored and whose key resolves to a
\* handle, and black when the column has no such block.
C12_PixelIsTopResolved ==
    \A t \in Tasks : \A c \in DOMAIN raster[t] :
        raster[t][c] = ColumnPixel(region[t][c])

\* A finished raster: stone seen below a fence that resolves to nothing, and
\* black for a column of air
C12_Witness ==
    \E t \in Tasks :
        /\ pc[t] = "done"
        /\ region[t] = << <<Fence, Stone>>, <<Air>> >>
        /\ raster[t][1] # Black
        /\ raster[t][2] = Black

----------------------------------------------------------------------------
(* image_chunk_textures (renderer.rs:60-98): the textured rasterizer.  The *)
(* image is the sequence of its texels, one tile of TileLen texels per     *)
(* column; raster[t] holds the image of task t.                            *)

\* Texels of one tile, the size of a cropped texture
TileLen == Len(Pngs["block/stone"])

\* renderer.rs:65: ImageBuffer::new, every texel zero
NewImage(columns) == [i \in 1..(columns * TileLen) |-> <<0, 0, 0, 0>>]

\* An overlay that paints every texel of the tile
overlay_paint_all(bottom, top, off) ==
    [i \in 1..Len(bottom) |->
        IF i - off \in 1..Len(top) THEN top[i - off] ELSE bottom[i]]

\* renderer.rs:8-20: top is painted at offset off where bottom is invisible
overlay(bottom, top, off) ==
    [i \in 1..Len(bottom) |->
        IF i - off \in 1..Len(top) /\ bottom[i][4] = 0 THEN top[i - off] ELSE bottom[i]]

TexRegions ==
    { << <<Air, Glass, Stone>>, <<Stone>> >>,
      << <<Stained, Stone>>, <<Air>> >>,
      << <<Leaves, Glass, LogY, Stone>>, <<Fence>> >>,
      << <<Glass>>, <<LogQ>> >> }

InitTextured ==
    /\ PaletteIdle /\ UnpackIdle /\ ChunkIdle /\ RegionIdle /\ NbtIdle /\ ImageIdle
    /\ textures = <<>>
    /\ textures_map = <<>>
    /\ readers = {}
    /\ writer = {}
    /\ poisoned = FALSE
    /\ region \in [Tasks -> TexRegions]
    /\ pc = [t \in Tasks |-> "scan"]
    /\ col = [t \in Tasks |-> 1]
    /\ y = [t \in Tasks |-> 1]
    /\ index = [t \in Tasks |-> None]
    /\ raster = [t \in Tasks |-> NewImage(Len(region[t]))]
    /\ cause = [t \in Tasks |-> "none"]
    /\ appended = [k \in Keys |-> 0]
    /\ loads = [k \in Keys |-> 0]
    /\ resolved = [k \in Keys |-> 0]

\* renderer.rs:66-68, 89: the column is over, on to the next one
NextColumn(t) ==
    /\ col' = [col EXCEPT ![t] = @ + 1]
    /\ y' = [y EXCEPT ![t] = 1]
    /\ pc' = [pc EXCEPT ![t] = IF col[t] = Len(region[t]) THEN "done" ELSE "scan"]

\* renderer.rs:68-70: the head of `for y in (0..256).rev()`
TexScan(t) ==
    /\ pc[t] = "scan"
    /\ UNCHANGED decoderVars
    /\ IF y[t] > Len(region[t][col[t]])
       THEN NextColumn(t)
       ELSE /\ IF Candidate(t)[1] \in ignore
               THEN /\ y' = [y EXCEPT ![t] = @ + 1]
                    /\ pc' = pc
               ELSE /\ pc' = [pc EXCEPT ![t] = "read"]
                    /\ y' = y
            /\ col' = col
    /\ UNCHANGED <<cacheVars, region, index, cause, raster>>

\* renderer.rs:84-90: get_texture(index), overlay on the column's tile, and
\* break unless the texture is transparent
TexGet(t) ==
    /\ pc[t] = "get"
    /\ UNCHANGED decoderVars
    /\ IF Unwrap(index[t]) + 1 \in DOMAIN textures
       THEN LET rec == TextureLoader_get_texture(textures, Unwrap(index[t]))
            IN  /\ raster' = [raster EXCEPT
                                ![t] = overlay(@, rec.image, (col[t] - 1) * TileLen)]
                /\ IF rec.is_transparent
                   THEN /\ y' = [y EXCEPT ![t] = @ + 1]
                        /\ pc' = [pc EXCEPT ![t] = "scan"]
                        /\ col' = col
                   ELSE NextColumn(t)
                /\ UNCHANGED cause
       ELSE /\ PanicTask(t, "bounds")          \* index out of bounds
            /\ UNCHANGED <<raster, col, y>>
    /\ readers' = readers \ {t}
    /\ UNCHANGED <<textures, textures_map, writer, poisoned, appended, loads, resolved,
                   region, index>>

TexTaskStep(t) ==
    \/ TexScan(t)
    \/ ReadLock(t)
    \/ Index(t)
    \/ WriteLock(t)
    \/ Load(t)
    \/ GetLock(t)
    \/ TexGet(t)

NextTextured == \E t \in Tasks : TexTaskStep(t)

SpecTextured == InitTextured /\ [][NextTextured]_vars

----------------------------------------------------------------------------
(* Claims about the textured rasters *)

\* The texels of the tile of column c
Tile(c) == ((c - 1) * TileLen + 1)..(c * TileLen)

\* Task t pastes a texture in this step
Pastes(t) == pc[t] = "get" /\ pc'[t] \in {"scan", "done"}

LowerOnlyFillsHoles(t) ==
    /\ \A i \in DOMAIN raster[t] :
          (raster[t][i][4] # 0 \/ i \notin Tile(col[t])) => raster'[t][i] = raster[t][i]
    /\ DOMAIN raster'[t] = DOMAIN raster[t]
    /\ raster'[t] # raster[t] => Pastes(t)
    /\ col'[t] >= col[t]
    /\ col'[t] = col[t] => y'[t] >= y[t]
    /\ (Pastes(t) /\ ~TextureLoader_get_texture(textures, Unwrap(index[t])).is_transparent)
          => col'[t] = col[t] + 1

\* C13: in textured mode a column is walked from the top down and a lower
\* block only fills holes: a texel with non-zero alpha is never written
\* again, the column is left as soon as an opaque texture has been pasted and
\* is never walked again, and a paste changes no texel outside the column's
\* tile.
C13_LowerOnlyFillsHoles == [][\A t \in Tasks : LowerOnlyFillsHoles(t)]_vars

\* Leaves, glass and a log were pasted in turn on the first tile, the stone
\* under the log was not: the hole of the leaves shows glass, the hole of the
\* glass shows the log.
C13_Witness ==
    \E t \in Tasks :
        /\ pc[t] = "done"
        /\ region[t][1] = <<Leaves, Glass, LogY, Stone>>
        /\ raster[t][1] = TextureRecord("minecraft:oak_leaves", "block/oak_leaves").image[1]
        /\ raster[t][2] = Pngs["block/oak_log_top"][2]
        /\ textures_map[LogY] # None
        /\ Stone \notin DOMAIN textures_map


\* The records of the blocks of a column that show, top first
RECURSIVE Shown(_)
Shown(column) ==
    IF column = <<>> THEN <<>>
    ELSE (IF Shows(Head(column))
          THEN <<Unwrap(Resolve(Head(column)[1], Head(column)[2]).push)>>
          ELSE <<>>) \o Shown(Tail(column))

\* The tile of a transparent texture over an opaque one, texel by texel:
\* the lower texture wherever the upper one is not fully opaque
TransparentOverOpaque(upper, lower) ==
    [d \in 1..TileLen |-> IF upper[d][4] < 255 THEN lower[d] ELSE upper[d]]

\* C14: transparent over opaque in textured mode: in a finished raster, the
\* tile of a column whose highest resolved block is partly transparent and
\* whose next resolved block is opaque shows the lower texture in every texel
\* where the upper one has alpha below 255 and the upper texture where it has
\* alpha 255.
C14_TransparentOverOpaque ==
    \A t \in Tasks : pc[t] = "done" =>
        \A c \in DOMAIN region[t] :
            LET shown == Shown(region[t][c])
            IN  (/\ Len(shown) >= 2
                 /\ shown[1].is_transparent
                 /\ ~shown[2].is_transparent) =>
                    \A d \in 1..TileLen :
                        raster[t][(c - 1) * TileLen + d] =
                            TransparentOverOpaque(shown[1].image, shown[2].image)[d]

----------------------------------------------------------------------------
(* The rasterizers started on a TextureLoader that earlier rasterizations  *)
(* have filled: main.rs keeps one loader for all the region files.         *)

\* The keys loaded before the tasks start, in the order they were loaded
WarmOrders == { <<>>, <<Stone, Leaves>>, <<Leaves, Fence, Glass, Stone>> }

RECURSIVE Warm(_, _, _)
\* The loader after loading keys in turn (loader.rs:117-157)
Warm(texs, map, keys) ==
    IF keys = <<>> THEN [textures |-> texs, textures_map |-> map]
    ELSE LET r == load(texs, map, Head(keys)[1], Head(keys)[2])
         IN  Warm(r.textures, r.textures_map, Tail(keys))

WarmRegions == { << <<Glass, Stone>>, <<Fence, Stone>> >>, << <<Leaves, Stone>> >> }

\* image_chunk grows its RgbImage pixel by pixel, image_chunk_textures
\* allocates its RgbaImage whole: the shape of raster[t] tells the two apart
Textured(t) == Len(raster[t]) = Len(region[t]) * TileLen

InitWarm ==
    /\ PaletteIdle /\ UnpackIdle /\ ChunkIdle /\ RegionIdle /\ NbtIdle /\ ImageIdle
    /\ \E keys \in WarmOrders :
          /\ textures = Warm(<<>>, <<>>, keys).textures
          /\ textures_map = Warm(<<>>, <<>>, keys).textures_map
    /\ readers = {}
    /\ writer = {}
    /\ poisoned = FALSE
    /\ region \in [Tasks -> WarmRegions]
    /\ pc = [t \in Tasks |-> "scan"]
    /\ col = [t \in Tasks |-> 1]
    /\ y = [t \in Tasks |-> 1]
    /\ index = [t \in Tasks |-> None]
    /\ \/ raster = [t \in Tasks |-> <<>>]
       \/ raster = [t \in Tasks |-> NewImage(Len(region[t]))]
    /\ cause = [t \in Tasks |-> "none"]
    /\ appended = [k \in Keys |-> 0]
    /\ loads = [k \in Keys |-> 0]
    /\ resolved = [k \in Keys |-> 0]

NextWarm ==
    \E t \in Tasks :
        \/ ~Textured(t) /\ Scan(t)
        \/ Textured(t) /\ TexScan(t)
        \/ ReadLock(t)
        \/ Index(t)
        \/ WriteLock(t)
        \/ Load(t)
        \/ GetLock(t)
        \/ ~Textured(t) /\ Get(t)
        \/ Textured(t) /\ TexGet(t)

SpecWarm == InitWarm /\ [][NextWarm]_vars

----------------------------------------------------------------------------
(* Claims about the rasters as functions of the region *)

RECURSIVE PasteAll(_, _)
\* The tile after pasting the records top first, up to the first opaque one
PasteAll(tile, recs) ==
    IF recs = <<>> THEN tile
    ELSE LET pasted == overlay(tile, Head(recs).image, 0)
         IN  IF Head(recs).is_transparent THEN PasteAll(pasted, Tail(recs)) ELSE pasted

RECURSIVE TexturedRaster(_)
TexturedRaster(columns) ==
    IF columns = <<>> THEN <<>>
    ELSE PasteAll(NewImage(1), Shown(Head(columns))) \o TexturedRaster(Tail(columns))

PixelRaster(columns) == [c \in DOMAIN columns |-> ColumnPixel(columns[c])]

\* C15: renderer determinism: the raster a task ends with is a function of
\* its region alone, in pixel mode and in textured mode: it is the same for
\* every interleaving with the tasks sharing the cache, whatever handles the
\* keys got and whether the cache started empty or filled, and two tasks
\* rendering equal regions end with equal rasters.
C15_RasterIsFunctionOfRegion ==
    /\ \A t \in Tasks : pc[t] = "done" =>
          raster[t] = IF Textured(t) THEN TexturedRaster(region[t])
                                     ELSE PixelRaster(region[t])
    /\ \A t, u \in Tasks :
          (pc[t] = "done" /\ pc[u] = "done" /\ region[t] = region[u]
              /\ Textured(t) = Textured(u)) => raster[t] = raster[u]

\* Two tasks have finished equal regions in textured mode on a cache that
\* started with stone and leaves in it; the glass was missed by both under the
\* shared lock and loaded by one of them
C15_Witness ==
    /\ \A t \in Tasks :
          /\ pc[t] = "done"
          /\ region[t] = << <<Glass, Stone>>, <<Fence, Stone>> >>
          /\ Textured(t)
    /\ loads[Stone] = 0
    /\ Stone \in DOMAIN textures_map
    /\ loads[Glass] = NumTasks
    /\ appended[Glass] = 1
----------------------------------------------------------------------------
(* NBTParser::new(bytes).read_compound() (nbt.rs:131-172) on whole and cut *)
(* buffers, as Region::from_file calls it on an inflated chunk             *)
(* (map.rs:326).                                                           *)

\* Well-formed buffers: a chunk without sections, and a root compound holding
\* a String and a Byte
NbtFiles ==
    { EmptyChunkBytes,
      Named(10, <<>>, Named(8, S_Name, U16Bytes(Len(S_stone)) \o S_stone)
                      \o Named(1, S_Y, <<0>>) \o <<0>>) }

InitNbt ==
    /\ CacheIdle /\ PaletteIdle /\ UnpackIdle /\ ChunkIdle /\ RegionIdle /\ ImageIdle
    /\ \E file \in NbtFiles : \E n \in 0..Len(file) : nb_bytes = SubSeq(file, 1, n)
    /\ nb_out = None

\* nbt.rs:131-135, 158-172
ReadCompound ==
    /\ nb_out = None
    /\ nb_out' = Some(read_compound(nb_bytes, 1))
    /\ UNCHANGED <<nb_bytes, imageVars>>
    /\ UNCHANGED <<renderVars, paletteVars, unpackVars, chunkVars, regionVars>>

NextNbt == ReadCompound

SpecNbt == InitNbt /\ [][NextNbt]_vars

\* The buffer stops inside a well-formed one, after its first byte: the
\* compound it opened has not met its terminating tag id 0
Truncated(bytes) ==
    \E file \in NbtFiles :
        /\ 1 <= Len(bytes) /\ Len(bytes) < Len(file)
        /\ bytes = SubSeq(file, 1, Len(bytes))

\* C16: a truncated stream is an error: for a buffer that ends before the
\* terminating tag id 0 of a compound it opened (at a tag id, inside a name
\* or inside a body), read_compound returns an error, never a compound made
\* of the bytes read so far.
C16_TruncatedIsError ==
    (nb_out # None /\ Truncated(nb_bytes)) => Unwrap(nb_out).st = "err"

----------------------------------------------------------------------------
(* Claims about the locking of the cache *)

LockDiscipline ==
    /\ Cardinality(writer) <= 1
    /\ writer # {} => readers = {}
    /\ \A t \in Tasks :
          /\ pc[t] \in {"index", "get"} <=> t \in readers
          /\ pc[t] = "load" <=> t \in writer
          /\ pc[t] = "write" => index[t] = None
          /\ pc[t] = "getlock" => index[t] # None

\* A load of a key that is in the map resolves nothing and changes nothing
LoadRechecks ==
    \A t \in Tasks :
        (pc[t] = "load" /\ pc'[t] # "load" /\ Candidate(t) \in DOMAIN textures_map) =>
            /\ resolved' = resolved
            /\ textures' = textures
            /\ textures_map' = textures_map
            /\ index'[t] = textures_map[Candidate(t)]

\* A task waits only where it asks for the lock
Waiting(t) == pc[t] \in {"read", "write", "getlock"}

\* When every task that has not ended waits for the lock, one of them gets it
NeverStuck ==
    (/\ \E t \in Tasks : Waiting(t)
     /\ \A t \in Tasks : Waiting(t) \/ pc[t] \in {"done", "failed"})
        => ENABLED NextWarm

\* C17: lock discipline: index and get run only under the shared lock, load
\* only under the exclusive lock; a task asks for the exclusive lock only
\* after index returned no handle and never while it holds the shared lock;
\* load looks the key up again before resolving; and the tasks never block
\* one another for good.
C17_LockDiscipline == [](LockDiscipline /\ NeverStuck) /\ [][LoadRechecks]_vars

\* A task that missed a key waits for the exclusive lock while the other task
\* reads under the shared lock; the key has been stored in the meantime
C17_Witness ==
    \E t, u \in Tasks :
        /\ pc[t] = "write"
        /\ Candidate(t) \in DOMAIN textures_map
        /\ pc[u] = "get"
        /\ u \in readers

----------------------------------------------------------------------------
(* Claims about the sections Chunk::new discards *)

SectionY(section_tag) == Unwrap(As(Unwrap(As(section_tag, 10))[S_Y], 1))

PaletteLen(section_tag) ==
    LET section == Unwrap(As(section_tag, 10))
    IN  IF S_Palette \in DOMAIN section
        THEN Len(Unwrap(As(section[S_Palette], 9))) ELSE 0

\* Y is -1, or the Palette is missing, or it is there and empty
Discardable(section_tag) ==
    SectionY(section_tag) = -1 \/ PaletteLen(section_tag) = 0

\* A section in range whose indices use its palette to the last entry
Storable(section_tag) ==
    LET section == Unwrap(As(section_tag, 10))
    IN  /\ SectionY(section_tag) \in 0..(ChunkSections - 1)
        /\ PaletteLen(section_tag) > 0
        /\ S_BlockStates \in DOMAIN section
        /\ LET u == UnpackIndexes(StatesBytes(Unwrap(As(section[S_BlockStates], 12))))
           IN  /\ u.st = "ok"
               /\ IndexesCheck(Unwrap(As(section[S_Palette], 9)), u.indexes)

\* C18: Chunk::new stores a section in slot Y only when Y is in [0,16) and
\* its palette is not empty; a section with Y = -1, without Palette, or with
\* an empty Palette list is discarded, its slot left None, and Chunk::new
\* returns its Chunk of 16 slots all the same.
C18_DiscardedLeaveNone ==
    (/\ ch_out # None
     /\ S_Sections \in DOMAIN ch_nbt
     /\ \A p \in DOMAIN SectionsOf(ch_nbt) :
           Discardable(SectionsOf(ch_nbt)[p]) \/ Storable(SectionsOf(ch_nbt)[p]))
    => LET out  == Unwrap(ch_out)
           secs == SectionsOf(ch_nbt)
       IN  /\ out.st = "ok"
           /\ Len(out.sections) = ChunkSections
           /\ \A s \in 1..ChunkSections :
                 out.sections[s] # None <=>
                    \E p \in DOMAIN secs :
                        ~Discardable(secs[p]) /\ SectionY(secs[p]) = s - 1

----------------------------------------------------------------------------
(* The image helpers of the loader on their own: taint_image               *)
(* (loader.rs:33-39) and image_avg (loader.rs:6-21).                       *)

\* Cropped textures: two of the resource tree, one without a visible pixel,
\* and four rows of a texture of one opaque colour
ImageInputs ==
    { Pngs["block/glass"],
      Pngs["block/white_stained_glass"],
      <<<<9, 9, 9, 0>>, <<0, 0, 0, 0>>>>,
      [i \in 1..(4 * CHUNK_SIZE) |-> <<255, 200, 1, 255>>] }

\* Tint offsets, the ends of i16 among them
TaintInputs == [1..3 -> {-(2^15), -300, -1, 0, 40, 2^15 - 1}]

InitImage ==
    /\ CacheIdle /\ PaletteIdle /\ UnpackIdle /\ ChunkIdle /\ RegionIdle /\ NbtIdle
    /\ im_png \in ImageInputs
    /\ im_taint \in TaintInputs
    /\ im_out = None

\* Does an i16 sum of taint_image leave i16?
TaintOverflows(img, taint) ==
    \E i \in DOMAIN img : \E c \in 1..3 : img[i][c] + taint[c] > 2^15 - 1

\* loader.rs:33-39.  The i16 addition at line 36 panics on overflow when the
\* build checks arithmetic and wraps when it does not.
TaintImage ==
    /\ im_out = None
    /\ \E checked \in BOOLEAN :
          im_out' = Some(IF checked /\ TaintOverflows(im_png, im_taint)
                         THEN [op |-> "taint", st |-> "panic", image |-> <<>>, avg |-> <<>>]
                         ELSE [op |-> "taint", st |-> "ok",
                               image |-> taint_image(im_png, im_taint), avg |-> <<>>])
    /\ UNCHANGED <<im_png, im_taint, nbtVars>>
    /\ UNCHANGED <<renderVars, paletteVars, unpackVars, chunkVars, regionVars>>

\* loader.rs:6-21
ImageAvg ==
    /\ im_out = None
    /\ im_out' = Some([op |-> "avg", st |-> "ok", image |-> im_png,
                       avg |-> image_avg(im_png)])
    /\ UNCHANGED <<im_png, im_taint, nbtVars>>
    /\ UNCHANGED <<renderVars, paletteVars, unpackVars, chunkVars, regionVars>>

NextImage == TaintImage \/ ImageAvg

SpecImage == InitImage /\ [][NextImage]_vars

Saturate(v) == IF v > 255 THEN 255 ELSE IF v < 0 THEN 0 ELSE v

\* C19: tinting is a saturating add: each of R, G, B of each pixel becomes
\* min(255, max(0, c + t)) for its channel value c and the tint offset t, any
\* i16, the sum taken without 16-bit overflow; alpha is left as it was.
C19_TintSaturates ==
    (im_out # None /\ Unwrap(im_out).op = "taint") =>
        /\ Unwrap(im_out).st = "ok"
        /\ Len(Unwrap(im_out).image) = Len(im_png)
        /\ \A i \in DOMAIN im_png :
              /\ \A c \in 1..3 :
                    Unwrap(im_out).image[i][c] = Saturate(im_png[i][c] + im_taint[c])
              /\ Unwrap(im_out).image[i][4] = im_png[i][4]

\* The pixels of an image that count: alpha is not zero
Visible(img) == {i \in DOMAIN img : img[i][4] # 0}

RECURSIVE SumOver(_, _, _)
SumOver(img, pixels, c) ==
    IF pixels = {} THEN 0
    ELSE LET i == CHOOSE j \in pixels : TRUE
         IN  img[i][c] + SumOver(img, pixels \ {i}, c)

\* C20: the average colour of a texture is, channel by channel, the integer
\* mean over exactly the pixels with non-zero alpha, and (0,0,0) when there is
\* none; an opaque texture of one colour averages to that colour.
C20_AverageOverVisible ==
    (im_out # None /\ Unwrap(im_out).op = "avg") =>
        \A c \in 1..3 :
            Unwrap(im_out).avg[c] =
                IF Visible(im_png) = {} THEN 0
                ELSE SumOver(im_png, Visible(im_png), c) \div Cardinality(Visible(im_png))

====
